---- MODULE Spec2Model ----
(***************************************************************************)
(* A model of the EQBCS relay server of src/server.py: the connection      *)
(* registry, the per-connection protocol state machine (login, armed       *)
(* command / payload, keepalive), the routing of payloads and the          *)
(* disconnect path.  Text is modelled as text: lines, names and payloads   *)
(* are strings and the string functions of the code (startswith, split,    *)
(* strip, upper, lower, sorted, join) are computed character by character. *)
(***************************************************************************)
EXTENDS Integers, Sequences, FiniteSets, TLC

\* one statement after another: F applied to the state v that the first one leaves
\* (v is computed once)
Then(v, F(_)) == CHOOSE r \in {F(x) : x \in {v}} : TRUE

(***************************************************************************)
(* Bounds of the model.                                                    *)
(***************************************************************************)
\* connections accepted over one run (each gets a fresh Client object)
MaxConn == 3

\* the number of connections in the keepalive specification
MaxKeepConn == 2

\* the clock (seconds) runs from 0 to MaxTime
MaxTime == 90

(***************************************************************************)
(* Program constants.                                                      *)
(***************************************************************************)
pingSeconds == 30
pingTimeoutSeconds == 75
msgTypeNbmsg == 2
msgTypeMsgAll == 3
msgTypeTell == 4
msgTypeChannels == 5
msgTypeBci == 6
\* Client.pendingMsgType = None
msgTypeNone == 0

(***************************************************************************)
(* Optional[str]: None and the strings.                                    *)
(***************************************************************************)
None == [some |-> FALSE, val |-> ""]
Some(s) == [some |-> TRUE, val |-> s]

(***************************************************************************)
(* Python's string functions, as far as the server uses them.              *)
(***************************************************************************)
CharAt(s, i) == SubSeq(s, i, i)

\* the characters of the model in code-point order (str comparison, sorted)
Ascii == "\t\n\r !\"#$%&'()*+,-./0123456789:;<=>?@ABCDEFGHIJKLMNOPQRSTUVWXYZ[\\]^_abcdefghijklmnopqrstuvwxyz{|}~"

CodeOf == [c \in {CharAt(Ascii, i) : i \in 1..Len(Ascii)} |->
             CHOOSE i \in 1..Len(Ascii) : CharAt(Ascii, i) = c]

Lowercase == "abcdefghijklmnopqrstuvwxyz"
Uppercase == "ABCDEFGHIJKLMNOPQRSTUVWXYZ"

ToUpper == [c \in DOMAIN CodeOf |->
              IF \E i \in 1..26 : CharAt(Lowercase, i) = c
              THEN CharAt(Uppercase, CHOOSE i \in 1..26 : CharAt(Lowercase, i) = c)
              ELSE c]

ToLower == [c \in DOMAIN CodeOf |->
              IF \E i \in 1..26 : CharAt(Uppercase, i) = c
              THEN CharAt(Lowercase, CHOOSE i \in 1..26 : CharAt(Uppercase, i) = c)
              ELSE c]

RECURSIVE Upper(_)
Upper(s) == IF s = "" THEN "" ELSE ToUpper[Head(s)] \o Upper(Tail(s))

RECURSIVE Lower(_)
Lower(s) == IF s = "" THEN "" ELSE ToLower[Head(s)] \o Lower(Tail(s))

StartsWith(s, p) == Len(s) >= Len(p) /\ SubSeq(s, 1, Len(p)) = p

\* str.find for a one-character needle: the 1-based index, 0 when absent
RECURSIVE FindFrom(_, _, _)
FindFrom(s, ch, i) ==
  IF i > Len(s) THEN 0
  ELSE IF CharAt(s, i) = ch THEN i
  ELSE FindFrom(s, ch, i + 1)

Find(s, ch) == FindFrom(s, ch, 1)

Contains(s, ch) == Find(s, ch) > 0

\* s.split(ch, 1) when ch occurs in s
Before(s, ch) == SubSeq(s, 1, Find(s, ch) - 1)
After(s, ch) == SubSeq(s, Find(s, ch) + 1, Len(s))

IsSpaceChar(c) == c \in {" ", "\t", "\n", "\r"}

RECURSIVE LStrip(_)
LStrip(s) == IF s # "" /\ IsSpaceChar(Head(s)) THEN LStrip(Tail(s)) ELSE s

RECURSIVE RStrip(_)
RStrip(s) ==
  IF s # "" /\ IsSpaceChar(CharAt(s, Len(s)))
  THEN RStrip(SubSeq(s, 1, Len(s) - 1))
  ELSE s

Strip(s) == RStrip(LStrip(s))

\* bytes.rstrip(b"\r")
RECURSIVE RStripCR(_)
RStripCR(s) ==
  IF s # "" /\ CharAt(s, Len(s)) = "\r"
  THEN RStripCR(SubSeq(s, 1, Len(s) - 1))
  ELSE s

\* str.split(): the whitespace-separated tokens, in order
RECURSIVE TokenEnd(_, _)
TokenEnd(s, i) ==
  IF i > Len(s) \/ IsSpaceChar(CharAt(s, i)) THEN i - 1 ELSE TokenEnd(s, i + 1)

RECURSIVE SplitWs(_)
SplitWs(s) ==
  LET t == LStrip(s)
  IN IF t = "" THEN <<>>
     ELSE LET e == TokenEnd(t, 1)
          IN <<SubSeq(t, 1, e)>> \o SplitWs(SubSeq(t, e + 1, Len(t)))

SeqToSet(q) == {q[i] : i \in 1..Len(q)}

\* a < b in Python's str order
RECURSIVE StrLess(_, _)
StrLess(a, b) ==
  IF b = "" THEN FALSE
  ELSE IF a = "" THEN TRUE
  ELSE IF Head(a) = Head(b) THEN StrLess(Tail(a), Tail(b))
  ELSE CodeOf[Head(a)] < CodeOf[Head(b)]

\* sorted(list of str)
RECURSIVE InsertSorted(_, _)
InsertSorted(q, x) ==
  IF q = <<>> THEN <<x>>
  ELSE IF StrLess(x, Head(q)) THEN <<x>> \o q
  ELSE <<Head(q)>> \o InsertSorted(Tail(q), x)

RECURSIVE Sorted(_)
Sorted(q) == IF q = <<>> THEN <<>> ELSE InsertSorted(Sorted(Tail(q)), Head(q))

\* " ".join(list of str)
RECURSIVE JoinSpace(_)
JoinSpace(q) ==
  IF q = <<>> THEN ""
  ELSE IF Len(q) = 1 THEN q[1]
  ELSE q[1] \o " " \o JoinSpace(Tail(q))

RECURSIVE UnescapeFrom(_, _)
UnescapeFrom(s, i) ==
  IF i > Len(s) THEN ""
  ELSE IF CharAt(s, i) = "\\" /\ i + 1 <= Len(s)
       THEN CharAt(s, i + 1) \o UnescapeFrom(s, i + 2)
       ELSE CharAt(s, i) \o UnescapeFrom(s, i + 1)

\* _unescape_text
UnescapeText(s) == UnescapeFrom(s, 1)

RECURSIVE CollapseFrom(_, _, _)
CollapseFrom(s, i, prevSpace) ==
  IF i > Len(s) THEN ""
  ELSE IF CharAt(s, i) = " "
       THEN (IF prevSpace THEN "" ELSE " ") \o CollapseFrom(s, i + 1, TRUE)
       ELSE CharAt(s, i) \o CollapseFrom(s, i + 1, FALSE)

\* _collapse_spaces
CollapseSpaces(s) == CollapseFrom(s, 1, FALSE)

\* the bytes _sendLine puts on the wire for a line
WireLine(line) ==
  IF line # "" /\ CharAt(line, Len(line)) = "\n" THEN line ELSE line \o "\n"

(***************************************************************************)
(* The state of the server.                                                *)
(***************************************************************************)
VARIABLES
  clients,        \* self.clients: the registry, the connections in the dict's (insertion) order
  cli,            \* the Client object of every connection
  nconn,          \* the number of connections accepted so far; connection k is the k-th accepted
  sock,           \* the socket of every connection: "none" (not accepted), "open", "closed"
  sel,            \* the connections registered with the selector for read-readiness
  sent,           \* what the handler that ran last put on the wire, in order: [to, line]
  reason,         \* the reason logged by _disconnect for a connection ("" while it is connected)
  sendsLeft,      \* the peer: how many more sends to a connection succeed (-1: no limit)
  now,            \* nowSeconds()
  password,       \* self.password, an Optional[str]
  CLIENT_TIMEOUT, \* the configured timeout in seconds (0: advisory mode)
  maxClients,     \* self.maxClients
  shouldStop,     \* self._shouldStop
  environ,        \* os.environ: EQBCS_PY_MASTER_PASSWORD and EQBCS_PY_INSTANCE<n>_PASSWORD
  AUTO_MASTER_PASSWORD_CACHE, \* the module global _AUTO_MASTER_PASSWORD_CACHE, an Optional[str]
  urandom,        \* os.urandom: how many tokens have been drawn from it
  running,        \* the event loop of start() is running
  pc,             \* the supervisor: where main of app/eqbcs.py stands
  listening,      \* the supervisor's port: is_listening(port) would find it accepting
  backoff,        \* backoff[port], in SupUnit-ths of a second
  last_try,       \* last_try[port], on the supervisor's clock
  clock,          \* time.time() of the supervisor, in SupUnit-ths of a second
  MaxBackoffSec,  \* EQBCS_SUP_MAX_BACKOFF, in SupUnit-ths of a second
  last            \* the event the loop dispatched last: [op, c, data]

vars == <<clients, cli, nconn, sock, sel, sent, reason, sendsLeft, now, password,
          CLIENT_TIMEOUT, maxClients, shouldStop, environ, AUTO_MASTER_PASSWORD_CACHE,
          urandom, running, pc, listening, backoff, last_try, clock, MaxBackoffSec, last>>

\* the variables of the password policy
policyVars == <<environ, AUTO_MASTER_PASSWORD_CACHE, urandom>>

\* the variables of the supervisor
supVars == <<pc, listening, backoff, last_try, clock, MaxBackoffSec>>

Conn == 1..MaxConn

\* Client(sock=conn, addr=addr), constructed at time t
NewClient(t) ==
  [charName |-> "", authorized |-> FALSE, lastPingAt |-> t, lastPongAt |-> t,
   readBuf |-> "", pendingMsgType |-> msgTypeNone, localEcho |-> FALSE,
   chanList |-> "", isClosing |-> FALSE]

\* the part of the state a handler works on
Cur ==
  [clients |-> clients, cli |-> cli, sock |-> sock, sel |-> sel, sent |-> <<>>,
   reason |-> reason, sendsLeft |-> sendsLeft, raised |-> FALSE]

\* x in list q
InSeq(q, x) == \E i \in 1..Len(q) : q[i] = x

\* dict.pop(key, None) on the registry
RECURSIVE Remove(_, _)
Remove(q, x) ==
  IF q = <<>> THEN <<>>
  ELSE IF Head(q) = x THEN Tail(q)
  ELSE <<Head(q)>> \o Remove(Tail(q), x)

\* _all_names_sorted
RECURSIVE NamesOf(_, _)
NamesOf(st, q) ==
  IF q = <<>> THEN <<>>
  ELSE (IF st.cli[Head(q)].authorized /\ st.cli[Head(q)].charName # ""
        THEN <<st.cli[Head(q)].charName>> ELSE <<>>) \o NamesOf(st, Tail(q))

AllNamesSorted(st) == Sorted(NamesOf(st, st.clients))

\* _roster_line
RosterLine(st) == JoinSpace(AllNamesSorted(st))

(***************************************************************************)
(* Sending, disconnecting and the control broadcasts call each other: a    *)
(* failed send disconnects its destination, and a disconnect broadcasts.   *)
(***************************************************************************)
RECURSIVE Disconnect(_, _, _)
RECURSIVE TxLine(_, _, _)
RECURSIVE BroadcastControlTo(_, _, _)

\* _sendLine(dst.sock, text) succeeds: the socket is open and the peer takes the bytes
SendOk(st, dst) == st.sock[dst] = "open" /\ st.sendsLeft[dst] # 0

\* the try/except of _tx_text and of _tx_control
TxLine(st, dst, text) ==
  IF SendOk(st, dst)
  THEN [st EXCEPT !.sent = Append(@, [to |-> dst, line |-> WireLine(text)]),
                  !.sendsLeft[dst] = IF @ > 0 THEN @ - 1 ELSE @]
  ELSE Disconnect(st, dst, "send failure")

\* _tx_text
TxText(st, dst, text) == TxLine(st, dst, text)

\* _tx_control
TxControl(st, dst, text) == TxLine(st, dst, text)

\* the loop of _broadcastControl over list(self.clients.values())
BroadcastControlTo(st, snap, line) ==
  IF snap = <<>> THEN st
  ELSE Then(IF st.cli[Head(snap)].authorized THEN TxControl(st, Head(snap), line) ELSE st,
            LAMBDA s : BroadcastControlTo(s, Tail(snap), line))

\* a control broadcast that does not skip the sessions that have not logged in
RECURSIVE BroadcastControlToAll(_, _, _)
BroadcastControlToAll(st, snap, line) ==
  IF snap = <<>> THEN st
  ELSE Then(TxControl(st, Head(snap), line),
            LAMBDA s : BroadcastControlToAll(s, Tail(snap), line))

BroadcastControl_All(st, line) == BroadcastControlToAll(st, st.clients, line)

\* _broadcastControl
BroadcastControl(st, line) == BroadcastControlTo(st, st.clients, line)

\* _broadcastNbClientList
BroadcastNbClientList(st) == BroadcastControl(st, "\tNBCLIENTLIST=" \o RosterLine(st))

\* a disconnect without the isClosing guard
Disconnect_Unguarded(st, c, why) ==
  LET st1 == [st EXCEPT !.cli[c].isClosing = TRUE,
                        !.sel = @ \ {c},
                        !.sock[c] = "closed",
                        !.clients = Remove(@, c),
                        !.reason[c] = why]
  IN IF st1.cli[c].authorized /\ st1.cli[c].charName # ""
     THEN Then(BroadcastControl(st1, "\tNBQUIT=" \o st1.cli[c].charName),
               LAMBDA s : BroadcastNbClientList(s))
     ELSE st1

\* a disconnect that notifies before it removes the session from the registry
Disconnect_NotifyFirst(st, c, why) ==
  IF st.cli[c].isClosing THEN st
  ELSE LET st1 == [st EXCEPT !.cli[c].isClosing = TRUE, !.reason[c] = why]
           st2 == IF st1.cli[c].authorized /\ st1.cli[c].charName # ""
                  THEN Then(BroadcastControl(st1, "\tNBQUIT=" \o st1.cli[c].charName),
                            LAMBDA s : BroadcastNbClientList(s))
                  ELSE st1
       IN [st2 EXCEPT !.sel = @ \ {c}, !.sock[c] = "closed", !.clients = Remove(@, c)]

\* a disconnect that closes the handle and leaves the session in the registry
Disconnect_Registered(st, c, why) ==
  IF st.cli[c].isClosing THEN st
  ELSE LET st1 == [st EXCEPT !.cli[c].isClosing = TRUE,
                             !.sel = @ \ {c},
                             !.sock[c] = "closed",
                             !.reason[c] = why]
       IN IF st1.cli[c].authorized /\ st1.cli[c].charName # ""
          THEN Then(BroadcastControl(st1, "\tNBQUIT=" \o st1.cli[c].charName),
                    LAMBDA s : BroadcastNbClientList(s))
          ELSE st1

\* _disconnect
Disconnect(st, c, why) ==
  IF st.cli[c].isClosing THEN st
  ELSE LET st1 == [st EXCEPT !.cli[c].isClosing = TRUE,
                             !.sel = @ \ {c},
                             !.sock[c] = "closed",
                             !.clients = Remove(@, c),
                             !.reason[c] = why]
       IN IF st1.cli[c].authorized /\ st1.cli[c].charName # ""
          THEN Then(BroadcastControl(st1, "\tNBQUIT=" \o st1.cli[c].charName),
                    LAMBDA s : BroadcastNbClientList(s))
          ELSE st1

\* the loop of _kickSameName over list(self.clients.values())
RECURSIVE KickSameNameIn(_, _, _)
KickSameNameIn(st, snap, newcomer) ==
  IF snap = <<>> THEN st
  ELSE LET dst == Head(snap)
           st1 == IF dst = newcomer \/ ~st.cli[dst].authorized THEN st
                  ELSE IF st.cli[dst].charName # ""
                          /\ st.cli[dst].charName = st.cli[newcomer].charName
                       THEN Disconnect(st, dst, "duplicate name (replaced by new connection)")
                       ELSE st
       IN KickSameNameIn(st1, Tail(snap), newcomer)

\* an eviction of the holders of the name in any letter case
RECURSIVE KickAnyCaseIn(_, _, _)
KickAnyCaseIn(st, snap, newcomer) ==
  IF snap = <<>> THEN st
  ELSE LET dst == Head(snap)
           st1 == IF dst = newcomer \/ ~st.cli[dst].authorized THEN st
                  ELSE IF st.cli[dst].charName # ""
                          /\ Lower(st.cli[dst].charName) = Lower(st.cli[newcomer].charName)
                       THEN Disconnect(st, dst, "duplicate name (replaced by new connection)")
                       ELSE st
       IN KickAnyCaseIn(st1, Tail(snap), newcomer)

KickSameName_AnyCase(st, newcomer) == KickAnyCaseIn(st, st.clients, newcomer)

\* a login that forgets to evict
KickSameName_Forgotten(st, newcomer) == st

\* _kickSameName
KickSameName(st, newcomer) == KickSameNameIn(st, st.clients, newcomer)

(***************************************************************************)
(* The command dispatcher.                                                 *)
(***************************************************************************)
\* the token of cmdLine: parts[0].strip().upper() of cmdLine.split(" ", 1)
CommandToken(cmdLine) ==
  Upper(Strip(IF Contains(cmdLine, " ") THEN Before(cmdLine, " ") ELSE cmdLine))

\* the argument of cmdLine: parts[1], or "" when there is none
CommandArg(cmdLine) == IF Contains(cmdLine, " ") THEN After(cmdLine, " ") ELSE ""

\* the value LOCALECHO <arg> sets
LocalEchoValue(arg) ==
  LET v == Strip(arg) IN v = "1" \/ Upper(v) \in {"ON", "TRUE"}

\* the armed type of an arm token (msgTypeNone for any other token)
ArmedType(token) ==
  CASE token = "NBMSG" -> msgTypeNbmsg
    [] token = "MSGALL" -> msgTypeMsgAll
    [] token = "TELL" -> msgTypeTell
    [] token = "CHANNELS" -> msgTypeChannels
    [] token = "BCI" -> msgTypeBci
    [] OTHER -> msgTypeNone

\* _handleNames
HandleNames(st, c) ==
  TxText(st, c, "-- Names: " \o JoinSpace(AllNamesSorted(st)) \o " .")

\* a dispatcher that closes the session that sends an unknown command
HandleCommand_Strict(st, c, cmdLine) ==
  IF cmdLine = "" THEN st
  ELSE LET token == CommandToken(cmdLine)
           arg == CommandArg(cmdLine)
       IN CASE token = "PONG" -> [st EXCEPT !.cli[c].lastPongAt = now]
            [] token = "NAMES" -> HandleNames(st, c)
            [] token = "NBNAMES" ->
                 TxControl(st, c, "\tNBCLIENTLIST=" \o RosterLine(st))
            [] token = "DISCONNECT" -> Disconnect(st, c, "client requested disconnect")
            [] token = "LOCALECHO" ->
                 LET st1 == [st EXCEPT !.cli[c].localEcho = LocalEchoValue(arg)]
                 IN TxText(st1, c, "-- Local Echo: "
                                     \o (IF st1.cli[c].localEcho THEN "ON" ELSE "OFF"))
            [] ArmedType(token) # msgTypeNone ->
                 [st EXCEPT !.cli[c].pendingMsgType = ArmedType(token)]
            [] OTHER -> Disconnect(TxText(st, c, "-- Unknown Command: " \o token), c,
                                   "unknown command")

\* _handle_command
HandleCommand(st, c, cmdLine) ==
  IF cmdLine = "" THEN st
  ELSE LET token == CommandToken(cmdLine)
           arg == CommandArg(cmdLine)
       IN CASE token = "PONG" -> [st EXCEPT !.cli[c].lastPongAt = now]
            [] token = "NAMES" -> HandleNames(st, c)
            [] token = "NBNAMES" ->
                 TxControl(st, c, "\tNBCLIENTLIST=" \o RosterLine(st))
            [] token = "DISCONNECT" -> Disconnect(st, c, "client requested disconnect")
            [] token = "LOCALECHO" ->
                 LET st1 == [st EXCEPT !.cli[c].localEcho = LocalEchoValue(arg)]
                 IN TxText(st1, c, "-- Local Echo: "
                                     \o (IF st1.cli[c].localEcho THEN "ON" ELSE "OFF"))
            [] ArmedType(token) # msgTypeNone ->
                 [st EXCEPT !.cli[c].pendingMsgType = ArmedType(token)]
            [] OTHER -> TxText(st, c, "-- Unknown Command: " \o token)

(***************************************************************************)
(* Login.                                                                  *)
(***************************************************************************)
\* the part of a login line before the first ";" (the whole line without one)
LoginPart(line) == IF Contains(line, ";") THEN Before(line, ";") ELSE line

\* what follows the first ";"
LoginRemainder(line) == IF Contains(line, ";") THEN After(line, ";") ELSE ""

\* providedPassword of a login line
ProvidedPassword(line) ==
  LET lp == LoginPart(line)
      after == SubSeq(lp, 7, Len(lp))
  IN IF StartsWith(lp, "LOGIN:") /\ Contains(after, "=")
     THEN Some(Before(after, "="))
     ELSE None

\* name of a login line, stripped
LoginName(line) ==
  LET lp == LoginPart(line)
      after == SubSeq(lp, 7, Len(lp))
  IN Strip(IF StartsWith(lp, "LOGIN:")
           THEN (IF Contains(after, "=") THEN After(after, "=") ELSE "")
           ELSE IF StartsWith(lp, "LOGIN=") THEN after
           ELSE "")

\* "store and authorize"
LoginStore(st, c, name) ==
  [st EXCEPT !.cli[c].charName = name,
             !.cli[c].authorized = TRUE,
             !.cli[c].lastPingAt = now,
             !.cli[c].lastPongAt = now]

\* an announcement that pushes the refreshed roster before the NBJOIN
LoginAnnounce_RosterFirst(st, c) ==
  LET st1 == BroadcastNbClientList(st)
      st2 == TxControl(st1, c, "\tNBCLIENTLIST=" \o RosterLine(st1))
  IN BroadcastControl(st2, "\tNBJOIN=" \o st.cli[c].charName)

\* "control lines & roster"
LoginAnnounce(st, c) ==
  LET st1 == BroadcastControl(st, "\tNBJOIN=" \o st.cli[c].charName)
      st2 == TxControl(st1, c, "\tNBCLIENTLIST=" \o RosterLine(st1))
  IN BroadcastNbClientList(st2)

\* the remainder of the login line, handled as a command when it starts with a tab
LoginTail(st, c, line) ==
  LET remainder == LStrip(LoginRemainder(line))
  IN IF StartsWith(remainder, "\t")
     THEN HandleCommand(st, c, Strip(SubSeq(remainder, 2, Len(remainder))))
     ELSE st

\* a password check that compares even when no password is configured
PasswordOk_AlwaysCompared(provided) == provided = password

\* a password check that takes any supplied password
PasswordOk_AnySupplied(provided) == password = None \/ provided.some

\* the password check of a login
PasswordOk(provided) == password = None \/ provided = password

\* a login handler that closes a session that sends anything but a login
HandleLoginOrBuffer_Strict(st, c, line) ==
  IF ~StartsWith(line, "LOGIN") THEN Disconnect(st, c, "empty login name")
  ELSE IF LoginName(line) = "" THEN Disconnect(st, c, "empty login name")
  ELSE IF ~PasswordOk(ProvidedPassword(line)) THEN Disconnect(st, c, "bad password")
  ELSE LoginTail(
         LoginAnnounce(KickSameName(LoginStore(st, c, LoginName(line)), c), c),
         c, line)

\* _handle_login_or_buffer
HandleLoginOrBuffer(st, c, line) ==
  IF ~StartsWith(line, "LOGIN") THEN st
  ELSE IF LoginName(line) = "" THEN Disconnect(st, c, "empty login name")
  ELSE IF ~PasswordOk(ProvidedPassword(line)) THEN Disconnect(st, c, "bad password")
  ELSE LoginTail(
         LoginAnnounce(KickSameName(LoginStore(st, c, LoginName(line)), c), c),
         c, line)

(***************************************************************************)
(* Routing of payloads.                                                    *)
(***************************************************************************)
\* an echo that never skips the sender
EchoSkip_Never(st, dst, src) == FALSE

\* "if dst is src and not src.localEcho: continue"
EchoSkip(st, dst, src) == dst = src /\ ~st.cli[src].localEcho

\* the recipients' loop of _broadcastMsgAll over list(self.clients.values())
RECURSIVE BroadcastMsgAllTo(_, _, _, _)
BroadcastMsgAllTo(st, snap, src, body) ==
  IF snap = <<>> THEN st
  ELSE LET dst == Head(snap)
           skip == \/ ~st.cli[dst].authorized
                   \/ EchoSkip(st, dst, src)
           text == IF StartsWith(body, "//")
                   THEN "<" \o st.cli[src].charName \o "> " \o st.cli[dst].charName
                            \o " " \o body
                   ELSE "<" \o st.cli[src].charName \o "> " \o body
       IN BroadcastMsgAllTo(IF skip THEN st ELSE TxText(st, dst, text),
                            Tail(snap), src, body)

\* a MSGALL that broadcasts its payload as received
BroadcastMsgAll_Raw(st, src, msg) == BroadcastMsgAllTo(st, st.clients, src, msg)

\* _broadcastMsgAll
BroadcastMsgAll(st, src, msg) ==
  BroadcastMsgAllTo(st, st.clients, src, CollapseSpaces(Strip(msg)))

\* a packet loop that echoes to a sender whose localEcho is on
RECURSIVE BroadcastNbpktTo_Echo(_, _, _, _)
BroadcastNbpktTo_Echo(st, snap, src, line) ==
  IF snap = <<>> THEN st
  ELSE LET dst == Head(snap)
           skip == ~st.cli[dst].authorized \/ EchoSkip(st, dst, src)
       IN BroadcastNbpktTo_Echo(IF skip THEN st ELSE TxControl(st, dst, line),
                                Tail(snap), src, line)

\* the recipients' loop of _broadcastNbpkt over list(self.clients.values())
RECURSIVE BroadcastNbpktTo(_, _, _, _)
BroadcastNbpktTo(st, snap, src, line) ==
  IF snap = <<>> THEN st
  ELSE LET dst == Head(snap)
           skip == ~st.cli[dst].authorized \/ dst = src
       IN BroadcastNbpktTo(IF skip THEN st ELSE TxControl(st, dst, line),
                           Tail(snap), src, line)

\* _broadcastNbpkt
BroadcastNbpkt(st, src, msg) ==
  BroadcastNbpktTo(st, st.clients, src,
                   "\tNBPKT:" \o st.cli[src].charName \o ":" \o msg)

\* the first registered session, in registry order, that is authorized and whose
\* name equals target when both are lowercased; 0 when there is none
RECURSIVE NameMatch(_, _, _)
NameMatch(st, q, target) ==
  IF q = <<>> THEN 0
  ELSE IF st.cli[Head(q)].authorized
          /\ Lower(st.cli[Head(q)].charName) = Lower(target)
       THEN Head(q)
       ELSE NameMatch(st, Tail(q), target)

\* the channel loop of _routeTell, over the live self.clients.values(): the dict
\* iterator raises RuntimeError at its next step once an entry has been removed
RECURSIVE TellChannelLoop(_, _, _, _, _, _, _)
TellChannelLoop(st, snap, i, src, target, text, delivered) ==
  IF i > Len(snap) THEN [st |-> st, delivered |-> delivered]
  ELSE LET dst == snap[i]
           skip == \/ ~st.cli[dst].authorized
                   \/ EchoSkip(st, dst, src)
                   \/ st.cli[dst].chanList = ""
                   \/ target \notin SeqToSet(SplitWs(st.cli[dst].chanList))
           st1 == IF skip THEN st ELSE TxText(st, dst, text)
       IN IF Len(st1.clients) # Len(snap)
          THEN [st |-> [st1 EXCEPT !.raised = TRUE], delivered |-> TRUE]
          ELSE TellChannelLoop(st1, snap, i + 1, src, target, text,
                               delivered \/ ~skip)

\* a tell that gives no reply when nothing was delivered
RouteTell_Silent(st, src, target, msg) ==
  IF target = "" THEN st
  ELSE LET text == "[" \o st.cli[src].charName \o "] " \o msg
           named == NameMatch(st, st.clients, target)
       IN IF named # 0 THEN TxText(st, named, text)
          ELSE TellChannelLoop(st, st.clients, 1, src, target, text, FALSE).st

\* _routeTell
RouteTell(st, src, target, msg) ==
  IF target = "" THEN st
  ELSE LET text == "[" \o st.cli[src].charName \o "] " \o msg
           named == NameMatch(st, st.clients, target)
       IN IF named # 0 THEN TxText(st, named, text)
          ELSE LET r == TellChannelLoop(st, st.clients, 1, src, target, text, FALSE)
               IN IF r.st.raised \/ r.delivered THEN r.st
                  ELSE TxText(r.st, src, "-- " \o target \o ": No such name.")

\* the channel loop of _handleBci, over the live self.clients.values()
RECURSIVE BciChannelLoop(_, _, _, _, _, _, _)
BciChannelLoop(st, snap, i, src, target, text, delivered) ==
  IF i > Len(snap) THEN [st |-> st, delivered |-> delivered]
  ELSE LET dst == snap[i]
           skip == \/ ~st.cli[dst].authorized
                   \/ EchoSkip(st, dst, src)
                   \/ st.cli[dst].chanList = ""
                   \/ target \notin SeqToSet(SplitWs(st.cli[dst].chanList))
           st1 == IF skip THEN st ELSE TxText(st, dst, text)
       IN IF Len(st1.clients) # Len(snap)
          THEN [st |-> [st1 EXCEPT !.raised = TRUE], delivered |-> TRUE]
          ELSE BciChannelLoop(st1, snap, i + 1, src, target, text,
                              delivered \/ ~skip)

\* a BCI that matches the name of its target exactly
HandleBci_ExactName(st, src, target, msg) ==
  IF target = "" THEN st
  ELSE LET text == "{" \o st.cli[src].charName \o "} " \o msg
           at == {i \in 1..Len(st.clients) :
                    /\ st.cli[st.clients[i]].authorized
                    /\ st.cli[st.clients[i]].charName = target}
       IN IF at # {} THEN TxText(st, st.clients[CHOOSE i \in at : \A j \in at : i <= j], text)
          ELSE LET r == BciChannelLoop(st, st.clients, 1, src, target, text, FALSE)
               IN IF r.st.raised \/ r.delivered THEN r.st
                  ELSE TxText(r.st, src, "-- " \o target \o ": No such name.")

\* _handleBci
HandleBci(st, src, target, msg) ==
  IF target = "" THEN st
  ELSE LET text == "{" \o st.cli[src].charName \o "} " \o msg
           named == NameMatch(st, st.clients, target)
       IN IF named # 0 THEN TxText(st, named, text)
          ELSE LET r == BciChannelLoop(st, st.clients, 1, src, target, text, FALSE)
               IN IF r.st.raised \/ r.delivered THEN r.st
                  ELSE TxText(r.st, src, "-- " \o target \o ": No such name.")

\* target of a TELL/BCI payload: (line.split(" ", 1) + [""])[0]
PayloadTarget(line) == IF Contains(line, " ") THEN Before(line, " ") ELSE line

\* msg of a TELL/BCI payload: (line.split(" ", 1) + [""])[1]
PayloadMsg(line) == IF Contains(line, " ") THEN After(line, " ") ELSE ""

\* a CHANNELS payload that adds its tokens to the channels joined before
SetChannels_Append(st, c, line) ==
  LET st1 == [st EXCEPT !.cli[c].chanList = Strip(@ \o " " \o Strip(line))]
  IN TxText(st1, c, st1.cli[c].charName \o " joined channels "
                      \o st1.cli[c].chanList \o ".")

\* a CHANNELS payload
SetChannels(st, c, line) ==
  LET st1 == [st EXCEPT !.cli[c].chanList = Strip(line)]
  IN TxText(st1, c, st1.cli[c].charName \o " joined channels "
                      \o st1.cli[c].chanList \o ".")

\* a line that is a payload of the pending type t
HandlePayload(st, c, t, line) ==
  CASE t = msgTypeNbmsg -> BroadcastNbpkt(st, c, line)
    [] t = msgTypeMsgAll -> BroadcastMsgAll(st, c, line)
    [] t = msgTypeTell ->
         RouteTell(st, c, PayloadTarget(line), UnescapeText(PayloadMsg(line)))
    [] t = msgTypeChannels -> SetChannels(st, c, line)
    [] t = msgTypeBci ->
         HandleBci(st, c, PayloadTarget(line), UnescapeText(PayloadMsg(line)))
    [] OTHER -> st

\* a receiver that dispatches a payload and leaves the latch armed
RxLine_LatchKept(st, c, line) ==
  IF ~st.cli[c].authorized THEN HandleLoginOrBuffer(st, c, line)
  ELSE IF StartsWith(line, "\t")
       THEN HandleCommand(st, c, Strip(SubSeq(line, 2, Len(line))))
  ELSE IF line = "" THEN st
  ELSE IF st.cli[c].pendingMsgType # msgTypeNone
       THEN HandlePayload(st, c, st.cli[c].pendingMsgType, line)
  ELSE BroadcastMsgAll(st, c, line)

\* a receiver that drops a line that comes with no type armed
RxLine_NoDefault(st, c, line) ==
  IF ~st.cli[c].authorized THEN HandleLoginOrBuffer(st, c, line)
  ELSE IF StartsWith(line, "\t")
       THEN HandleCommand(st, c, Strip(SubSeq(line, 2, Len(line))))
  ELSE IF line = "" THEN st
  ELSE IF st.cli[c].pendingMsgType # msgTypeNone
       THEN HandlePayload([st EXCEPT !.cli[c].pendingMsgType = msgTypeNone], c,
                          st.cli[c].pendingMsgType, line)
  ELSE st

\* a receiver that takes the blank line for a line like any other
RxLine_BlankTaken(st, c, line) ==
  IF ~st.cli[c].authorized THEN HandleLoginOrBuffer(st, c, line)
  ELSE IF StartsWith(line, "\t")
       THEN HandleCommand(st, c, Strip(SubSeq(line, 2, Len(line))))
  ELSE IF st.cli[c].pendingMsgType # msgTypeNone
       THEN HandlePayload([st EXCEPT !.cli[c].pendingMsgType = msgTypeNone], c,
                          st.cli[c].pendingMsgType, line)
  ELSE BroadcastMsgAll(st, c, line)

\* a receiver whose latch is consumed by the blank line
RxLine_BlankResets(st, c, line) ==
  IF ~st.cli[c].authorized THEN HandleLoginOrBuffer(st, c, line)
  ELSE IF StartsWith(line, "\t")
       THEN HandleCommand(st, c, Strip(SubSeq(line, 2, Len(line))))
  ELSE IF line = "" THEN [st EXCEPT !.cli[c].pendingMsgType = msgTypeNone]
  ELSE IF st.cli[c].pendingMsgType # msgTypeNone
       THEN HandlePayload([st EXCEPT !.cli[c].pendingMsgType = msgTypeNone], c,
                          st.cli[c].pendingMsgType, line)
  ELSE BroadcastMsgAll(st, c, line)

\* _rx_line
RxLine(st, c, line) ==
  IF ~st.cli[c].authorized THEN HandleLoginOrBuffer(st, c, line)
  ELSE IF StartsWith(line, "\t")
       THEN HandleCommand(st, c, Strip(SubSeq(line, 2, Len(line))))
  ELSE IF line = "" THEN st
  ELSE IF st.cli[c].pendingMsgType # msgTypeNone
       THEN HandlePayload([st EXCEPT !.cli[c].pendingMsgType = msgTypeNone], c,
                          st.cli[c].pendingMsgType, line)
  ELSE BroadcastMsgAll(st, c, line)

(***************************************************************************)
(* The event loop: accept, service, the keepalive tick, shutdown.          *)
(***************************************************************************)
\* the line loop of _service: every complete line of readBuf goes to _rx_line
RECURSIVE ServiceLoop(_, _)
ServiceLoop(st, c) ==
  LET buf == st.cli[c].readBuf
      nl == Find(buf, "\n")
  IN IF st.raised \/ nl = 0 THEN st
     ELSE ServiceLoop(
            RxLine([st EXCEPT !.cli[c].readBuf = SubSeq(buf, nl + 1, Len(buf))],
                   c, RStripCR(SubSeq(buf, 1, nl - 1))),
            c)

\* the reason of a keepalive disconnect
TimeoutReason == "timeout > " \o ToString(CLIENT_TIMEOUT) \o "s without PONG"

\* a tick that takes every timeout for advisory
TickClient_Advisory(st, c) ==
  IF ~st.cli[c].authorized THEN st
  ELSE LET st1 == IF st.cli[c].lastPingAt + pingSeconds <= now
                  THEN [TxControl(st, c, "\tPING") EXCEPT !.cli[c].lastPingAt = now]
                  ELSE st
       IN Then(st1, LAMBDA s :
            IF s.cli[c].lastPongAt + pingTimeoutSeconds <= now
            THEN [s EXCEPT !.cli[c].lastPongAt = now]
            ELSE s)

\* a tick that disconnects in advisory mode too, after pingTimeoutSeconds
TickClient_Strict(st, c) ==
  IF ~st.cli[c].authorized THEN st
  ELSE LET st1 == IF st.cli[c].lastPingAt + pingSeconds <= now
                  THEN [TxControl(st, c, "\tPING") EXCEPT !.cli[c].lastPingAt = now]
                  ELSE st
           T == IF CLIENT_TIMEOUT > 0 THEN CLIENT_TIMEOUT ELSE pingTimeoutSeconds
       IN Then(st1, LAMBDA s :
            IF s.cli[c].lastPongAt + T <= now
            THEN Disconnect(s, c, TimeoutReason)
            ELSE s)

\* a tick that sends a PING to every authorized session, whatever the time of the last
TickClient_EveryTick(st, c) ==
  IF ~st.cli[c].authorized THEN st
  ELSE LET st1 == [TxControl(st, c, "\tPING") EXCEPT !.cli[c].lastPingAt = now]
       IN Then(st1, LAMBDA s :
            IF CLIENT_TIMEOUT > 0
            THEN (IF s.cli[c].lastPongAt + CLIENT_TIMEOUT <= now
                  THEN Disconnect(s, c, TimeoutReason)
                  ELSE s)
            ELSE (IF s.cli[c].lastPongAt + pingTimeoutSeconds <= now
                  THEN [s EXCEPT !.cli[c].lastPongAt = now]
                  ELSE s))

\* the body of the loop of _tick for one client
TickClient(st, c) ==
  IF ~st.cli[c].authorized THEN st
  ELSE LET st1 == IF st.cli[c].lastPingAt + pingSeconds <= now
                  THEN [TxControl(st, c, "\tPING") EXCEPT !.cli[c].lastPingAt = now]
                  ELSE st
       IN Then(st1, LAMBDA s :
            IF CLIENT_TIMEOUT > 0
            THEN (IF s.cli[c].lastPongAt + CLIENT_TIMEOUT <= now
                  THEN Disconnect(s, c, TimeoutReason)
                  ELSE s)
            ELSE (IF s.cli[c].lastPongAt + pingTimeoutSeconds <= now
                  THEN [s EXCEPT !.cli[c].lastPongAt = now]
                  ELSE s))

\* the loop of _tick over list(self.clients.values())
RECURSIVE TickLoop(_, _)
TickLoop(st, snap) ==
  IF snap = <<>> THEN st
  ELSE Then(TickClient(st, Head(snap)), LAMBDA s : TickLoop(s, Tail(snap)))

\* the loop of _closeAll over list(self.clients.values())
RECURSIVE CloseAllIn(_, _)
CloseAllIn(st, snap) ==
  IF snap = <<>> THEN st
  ELSE Then(Disconnect(st, Head(snap), "server shutdown"),
            LAMBDA s : CloseAllIn(s, Tail(snap)))

\* a shutdown that disconnects the first session of the registry only
CloseAll_First(st) ==
  IF st.clients = <<>> THEN st ELSE Disconnect(st, Head(st.clients), "server shutdown")

\* _closeAll
CloseAll(st) == CloseAllIn(st, st.clients)

\* the state a handler leaves behind
Commit(st, run) ==
  \E r \in {st} :
    /\ clients' = r.clients
    /\ cli' = r.cli
    /\ sock' = r.sock
    /\ sel' = r.sel
    /\ sent' = r.sent
    /\ reason' = r.reason
    /\ sendsLeft' = r.sendsLeft
    /\ running' = run

\* a handler returns to the loop of start(): an exception it raised leaves the loop
\* through the finally clause, which runs _closeAll
Return(st) ==
  \E r \in {st} : Commit(IF r.raised THEN CloseAll(r) ELSE r, ~r.raised)

\* the event dispatched
Event(op, c, data) == [op |-> op, c |-> c, data |-> data]

\* an accept that registers the connection whatever the size of the registry
Accept_OverCapacity ==
  /\ running
  /\ nconn < MaxConn
  /\ LET c == nconn + 1
     IN /\ nconn' = c
        /\ sock' = [sock EXCEPT ![c] = "open"]
        /\ cli' = [cli EXCEPT ![c] = NewClient(now)]
        /\ clients' = Append(clients, c)
        /\ sel' = sel \cup {c}
        /\ sent' = <<>>
  /\ last' = Event("accept", nconn + 1, "")
  /\ UNCHANGED <<reason, sendsLeft, now, password, CLIENT_TIMEOUT, maxClients, shouldStop, policyVars, supVars,
                 running>>

\* _accept: a new connection, the nconn+1-th
Accept ==
  /\ running
  /\ nconn < MaxConn
  /\ LET c == nconn + 1
     IN /\ nconn' = c
        /\ IF Len(clients) >= maxClients
           THEN /\ sock' = [sock EXCEPT ![c] = "closed"]
                /\ sent' = <<[to |-> c, line |-> WireLine("-- Server full.")]>>
                /\ UNCHANGED <<clients, cli, sel>>
           ELSE /\ sock' = [sock EXCEPT ![c] = "open"]
                /\ cli' = [cli EXCEPT ![c] = NewClient(now)]
                /\ clients' = Append(clients, c)
                /\ sel' = sel \cup {c}
                /\ sent' = <<>>
  /\ last' = Event("accept", nconn + 1, "")
  /\ UNCHANGED <<reason, sendsLeft, now, password, CLIENT_TIMEOUT, maxClients, shouldStop, policyVars, supVars,
                 running>>

\* _service of a connection that select() returned as readable: when the session
\* has been disconnected since, recv on its closed socket raises OSError, which
\* _service does not catch (it catches ConnectionResetError only)
ServiceReady(st, c, data) ==
  IF st.sock[c] = "closed" THEN [st EXCEPT !.raised = TRUE]
  ELSE ServiceLoop([st EXCEPT !.cli[c].readBuf = @ \o data], c)

\* the dispatch loop of start() over a batch of two readable connections
Batch(c1, d1, c2, d2) ==
  /\ running
  /\ c1 \in sel
  /\ c2 \in sel
  /\ c1 # c2
  /\ \E st1 \in {ServiceReady(Cur, c1, d1)} :
       Return(IF st1.raised THEN st1 ELSE ServiceReady(st1, c2, d2))
  /\ last' = Event("batch", c2, d2)
  /\ UNCHANGED <<nconn, now, password, CLIENT_TIMEOUT, maxClients, shouldStop, policyVars, supVars>>

\* _service of a readable connection whose recv returns data
Service(c, data) ==
  /\ running
  /\ c \in sel
  /\ Return(ServiceLoop([Cur EXCEPT !.cli[c].readBuf = @ \o data], c))
  /\ last' = Event("service", c, data)
  /\ UNCHANGED <<nconn, now, password, CLIENT_TIMEOUT, maxClients, shouldStop, policyVars, supVars>>

\* _service of a readable connection whose recv returns b"" or raises ConnectionResetError
ServiceClosed(c, why) ==
  /\ running
  /\ c \in sel
  /\ Return(Disconnect(Cur, c, why))
  /\ last' = Event("closed", c, "")
  /\ UNCHANGED <<nconn, now, password, CLIENT_TIMEOUT, maxClients, shouldStop, policyVars, supVars>>

\* _tick
Tick ==
  /\ running
  /\ Return(TickLoop(Cur, clients))
  /\ last' = Event("tick", 0, "")
  /\ UNCHANGED <<nconn, now, password, CLIENT_TIMEOUT, maxClients, shouldStop, policyVars, supVars>>

\* _stop, the handler of SIGINT and SIGTERM
Stop ==
  /\ running
  /\ ~shouldStop
  /\ shouldStop' = TRUE
  /\ last' = Event("stop", 0, "")
  /\ UNCHANGED <<clients, cli, nconn, sock, sel, sent, reason, sendsLeft, now, password,
                 CLIENT_TIMEOUT, maxClients, policyVars, supVars, running>>

\* the loop of start() finds _shouldStop set and exits through _closeAll
Shutdown ==
  /\ running
  /\ shouldStop
  /\ Commit(CloseAll(Cur), FALSE)
  /\ last' = Event("shutdown", 0, "")
  /\ UNCHANGED <<nconn, now, password, CLIENT_TIMEOUT, maxClients, shouldStop, policyVars, supVars>>

(***************************************************************************)
(* The environment: the clock, and peers that stop taking bytes.           *)
(***************************************************************************)
\* the clock advances by d seconds
AdvanceTime(d) ==
  /\ now + d <= MaxTime
  /\ now' = now + d
  /\ UNCHANGED <<clients, cli, nconn, sock, sel, sent, reason, sendsLeft, password,
                 CLIENT_TIMEOUT, maxClients, shouldStop, policyVars, supVars, running, last>>

\* the peer of c goes away unnoticed: after k more successful sends, sends to c fail
PeerBreak(c, k) ==
  /\ running
  /\ c \in sel
  /\ sendsLeft[c] = -1
  /\ sendsLeft' = [sendsLeft EXCEPT ![c] = k]
  /\ UNCHANGED <<clients, cli, nconn, sock, sel, sent, reason, now, password,
                 CLIENT_TIMEOUT, maxClients, shouldStop, policyVars, supVars, running, last>>

(***************************************************************************)
(* The password policy: the master and instance policies of the            *)
(* environment, the generated tokens, and the literal of the command line. *)
(***************************************************************************)
\* the number of tokens one process generates at most
MaxTokens == 3

\* the instance numbers, port - EQBCS_PY_PORT_RANGE_START
Instances == 0..1

\* _parse_pw_policy(raw): the mode and value of a raw policy
ParsePwPolicy(raw) ==
  IF ~raw.some THEN [mode |-> "none", value |-> None]
  ELSE LET t  == Strip(raw.val)
           tl == Lower(t)
       IN IF t = "" THEN [mode |-> "none", value |-> None]
          ELSE IF tl \in {"null", "none", "unset", "default", "false", "0", "off", "no"}
               THEN [mode |-> "none", value |-> None]
          ELSE IF tl = "auto" THEN [mode |-> "auto", value |-> None]
          ELSE [mode |-> "defined", value |-> Some(t)]

\* _gen_base64_22() on the k-th draw of os.urandom(16): 128 random bits in base64,
\* taken as a token no other draw returns
GenBase64_22(k) == "tok" \o ToString(k)

\* _master_effective() generating a master token whenever the policy is auto
MasterEffective_Uncached(m, cache, rnd) ==
  IF m.mode = "none" THEN [pw |-> None, cache |-> cache, urandom |-> rnd]
  ELSE IF m.mode = "defined" THEN [pw |-> m.value, cache |-> cache, urandom |-> rnd]
  ELSE [pw |-> Some(GenBase64_22(rnd + 1)), cache |-> Some(GenBase64_22(rnd + 1)),
        urandom |-> rnd + 1]

\* _master_effective(): the password of the master policy, with the cache and the
\* number of draws it leaves
MasterEffective(m, cache, rnd) ==
  IF m.mode = "none" THEN [pw |-> None, cache |-> cache, urandom |-> rnd]
  ELSE IF m.mode = "defined" THEN [pw |-> m.value, cache |-> cache, urandom |-> rnd]
  ELSE IF ~cache.some
       THEN [pw |-> Some(GenBase64_22(rnd + 1)), cache |-> Some(GenBase64_22(rnd + 1)),
             urandom |-> rnd + 1]
       ELSE [pw |-> cache, cache |-> cache, urandom |-> rnd]

\* resolve_instance_password with the master token for an instance of policy auto
ResolveInstancePassword_Shared(env, cache, rnd, instance_no) ==
  LET m == ParsePwPolicy(env.master)
      i == ParsePwPolicy(env.instance[instance_no + 1])
  IN IF i.mode = "none" THEN MasterEffective(m, cache, rnd)
     ELSE IF i.mode = "defined" THEN [pw |-> i.value, cache |-> cache, urandom |-> rnd]
     ELSE MasterEffective([mode |-> "auto", value |-> None], cache, rnd)

\* resolve_instance_password(instance_no) in an environment, with the cache and the
\* number of draws it leaves
ResolveInstancePassword(env, cache, rnd, instance_no) ==
  LET m == ParsePwPolicy(env.master)
      i == ParsePwPolicy(env.instance[instance_no + 1])
  IN IF i.mode = "none" THEN MasterEffective(m, cache, rnd)
     ELSE IF i.mode = "defined" THEN [pw |-> i.value, cache |-> cache, urandom |-> rnd]
     ELSE [pw |-> Some(GenBase64_22(rnd + 1)), cache |-> cache, urandom |-> rnd + 1]

\* main's effective_password: env_password, or else args.password or None
EffectivePassword(env_password, arg) ==
  IF env_password.some THEN env_password
  ELSE IF arg.some /\ arg.val # "" THEN arg ELSE None

\* main resolves the password of instance instance_no, started with -s arg (None when
\* the flag is absent), and constructs the server with it
Main(instance_no, arg) ==
  LET r == ResolveInstancePassword(environ, AUTO_MASTER_PASSWORD_CACHE, urandom, instance_no)
  IN /\ r.urandom <= MaxTokens
     /\ password' = EffectivePassword(r.pw, arg)
     /\ AUTO_MASTER_PASSWORD_CACHE' = r.cache
     /\ urandom' = r.urandom
     /\ last' = Event("main", instance_no, IF arg.some THEN arg.val ELSE "")
     /\ UNCHANGED <<clients, cli, nconn, sock, sel, sent, reason, sendsLeft, now,
                    CLIENT_TIMEOUT, maxClients, shouldStop, environ, running, supVars>>

(***************************************************************************)
(* The supervisor (app/eqbcs.py) of one port: it launches an instance when *)
(* the port is down, with a backoff between its attempts.                  *)
(***************************************************************************)
\* the time of the supervisor is counted in quarters of a second
SupUnit == 4

\* EQBCS_SUP_CHECK_INTERVAL and EQBCS_SUP_INITIAL_WAIT, at their defaults
CheckIntervalSec == 2 * SupUnit
InitialWaitSec == 6 * SupUnit

\* the time up to which the supervisor is followed: 24 seconds
MaxSupTime == 96

\* the variables of the server
serverVars == <<clients, cli, nconn, sock, sel, sent, reason, sendsLeft, now, password,
                CLIENT_TIMEOUT, maxClients, shouldStop, policyVars, running>>

Min(a, b) == IF a <= b THEN a ELSE b
Max(a, b) == IF a >= b THEN a ELSE b

\* schedule_backoff_on_down, for the one port
ScheduleBackoffOnDown ==
  /\ pc = "schedule"
  /\ backoff' = IF listening THEN backoff
                ELSE IF backoff = 0 THEN SupUnit ELSE Min(backoff * 2, MaxBackoffSec)
  /\ pc' = "start"
  /\ last' = Event("schedule", 0, "")
  /\ UNCHANGED <<serverVars, listening, last_try, clock, MaxBackoffSec>>

\* the position after a pass of start_if_needed: the initial pass is followed by the
\* loop at once, a pass of the loop by the sleep
AfterStart == IF pc = "initial" THEN "schedule" ELSE "sleep"

\* start_if_needed returns early: the port is listening, or the backoff is not over
StartSkipped ==
  /\ pc \in {"initial", "start"}
  /\ listening \/ clock < last_try + backoff
  /\ pc' = AfterStart
  /\ last' = Event("skip", 0, "")
  /\ UNCHANGED <<serverVars, listening, backoff, last_try, clock, MaxBackoffSec>>

\* start_if_needed is due, and preparing the prefix or the service files raises
\* outside the try: the exception ends the supervisor
LaunchRaises ==
  /\ pc \in {"initial", "start"}
  /\ ~(listening \/ clock < last_try + backoff)
  /\ pc' = "raised"
  /\ last' = Event("raise", 0, "")
  /\ UNCHANGED <<serverVars, listening, backoff, last_try, clock, MaxBackoffSec>>

\* start_if_needed launches the instance; the launch raises inside the try ("error"),
\* or the port comes up after took, within InitialWaitSec ("up"), or it does not
\* ("down"); a backoff is followed down to a quarter of a second
Launch(outcome, took) ==
  /\ pc \in {"initial", "start"}
  /\ ~(listening \/ clock < last_try + backoff)
  /\ clock + took <= MaxSupTime
  /\ \/ /\ outcome = "error"
        /\ took = 0
        /\ UNCHANGED <<listening, backoff>>
     \/ /\ outcome = "up"
        /\ took <= InitialWaitSec
        /\ backoff % 2 = 0
        /\ listening' = TRUE
        /\ backoff' = Max(0, Min(backoff \div 2, MaxBackoffSec))
     \/ /\ outcome = "down"
        /\ took = InitialWaitSec
        /\ UNCHANGED <<listening, backoff>>
  /\ last_try' = clock
  /\ clock' = clock + took
  /\ pc' = AfterStart
  /\ last' = Event("launch", 0, outcome)
  /\ UNCHANGED <<serverVars, MaxBackoffSec>>

\* time.sleep(CheckIntervalSec), at the end of a pass
Sleep ==
  /\ pc = "sleep"
  /\ clock + CheckIntervalSec <= MaxSupTime
  /\ clock' = clock + CheckIntervalSec
  /\ pc' = "schedule"
  /\ UNCHANGED <<serverVars, listening, backoff, last_try, MaxBackoffSec, last>>

\* the instance dies, or an instance launched earlier binds its port at last
PortChanges ==
  /\ pc # "initial"
  /\ listening' = ~listening
  /\ UNCHANGED <<serverVars, pc, backoff, last_try, clock, MaxBackoffSec, last>>

\* the supervisor before its initial pass, under a maximum backoff
InitSupervisor(max) ==
  /\ pc = "initial"
  /\ listening = FALSE
  /\ backoff = 0
  /\ last_try = 0
  /\ clock = 0
  /\ MaxBackoffSec = max

\* the state of the server after construction, under a configuration and an environment
InitServer(pw, timeout, cap, env) ==
  /\ clients = <<>>
  /\ cli = [c \in Conn |-> NewClient(0)]
  /\ nconn = 0
  /\ sock = [c \in Conn |-> "none"]
  /\ sel = {}
  /\ sent = <<>>
  /\ reason = [c \in Conn |-> ""]
  /\ sendsLeft = [c \in Conn |-> -1]
  /\ now = 0
  /\ password = pw
  /\ CLIENT_TIMEOUT = timeout
  /\ maxClients = cap
  /\ shouldStop = FALSE
  /\ environ = env
  /\ AUTO_MASTER_PASSWORD_CACHE = None
  /\ urandom = 0
  /\ running = TRUE
  /\ last = Event("start", 0, "")

\* the state after construction, under a configuration and an environment; the
\* supervisor under its default maximum backoff of 30 seconds
InitEnv(pw, timeout, cap, env) ==
  InitServer(pw, timeout, cap, env) /\ InitSupervisor(30 * SupUnit)

\* the state after construction, under a configuration, no policy in the environment
InitWith(pw, timeout, cap) ==
  InitEnv(pw, timeout, cap, [master |-> None, instance |-> <<None, None>>])

(***************************************************************************)
(* Logins: connections arrive, log in under the names Al and al, with and  *)
(* without a password, are closed by their peers or stop taking bytes.     *)
(***************************************************************************)
\* what a connection receives in one read: login lines, and one read that holds a
\* rejected login line followed by a good one
LoginData ==
  {"LOGIN:pw=Al;\n", "LOGIN:pw=al;\n", "LOGIN:no=Al;\n", "LOGIN=;\nLOGIN:pw=Al;\n"}

InitLogin == \E pw \in {None, Some("pw")} : InitWith(pw, 120, MaxConn)

LoginService == \E c \in Conn, d \in LoginData : Service(c, d)

PeerCloses == \E c \in Conn : ServiceClosed(c, "eof")

PeerBreaks == \E c \in Conn : PeerBreak(c, 0)

NextLogin == Accept \/ LoginService \/ PeerCloses \/ PeerBreaks

SpecLogin == InitLogin /\ [][NextLogin]_vars

\* the registered sessions
Registered == SeqToSet(clients)

\* the registered sessions that have not logged in
Unauthorized == {c \in Registered : ~cli[c].authorized}

\* the registered, authorized sessions of st whose name is exactly name
Holders(st, name) ==
  {d \in SeqToSet(st.clients) : st.cli[d].authorized /\ st.cli[d].charName = name}

\* the place of the first message of trace q that goes to c and is text; 0 if none
RECURSIVE FirstSent(_, _, _, _)
FirstSent(q, i, c, text) ==
  IF i > Len(q) THEN 0
  ELSE IF q[i] = [to |-> c, line |-> text] THEN i
  ELSE FirstSent(q, i + 1, c, text)

WasSent(q, c, text) == FirstSent(q, 1, c, text) > 0

\* names and login lines the claims are tried on in every reachable state
ProbeNames == {"Al", "al"}

\* a login line that is accepted with and without the configured password "pw"
GoodLogin(name) == "LOGIN:pw=" \o name \o ";"

\* no two registered sessions are authorized under the same exact name
UniqueNames ==
  \A c, d \in Registered :
    (c # d /\ cli[c].authorized /\ cli[d].authorized)
      => cli[c].charName # cli[d].charName

\* a login under a name leaves the new session authorized under it and every prior
\* holder of the name closed and out of the registry
LoginEvicts ==
  \A c \in Unauthorized, name \in ProbeNames :
    LET r == RxLine(Cur, c, GoodLogin(name))
    IN /\ r.cli[c].authorized /\ r.cli[c].charName = name
       /\ \A d \in Holders(Cur, name) :
            /\ ~InSeq(r.clients, d)
            /\ r.cli[d].isClosing
            /\ r.sock[d] = "closed"
       /\ Holders(r, name) \subseteq {c}

\* the prior holder is evicted when the new session is already authorized: the
\* NBQUIT of the evicted holder goes to the new session too, ahead of its NBJOIN
EvictedAfterAuthorized ==
  \A c \in Unauthorized, name \in ProbeNames :
    LET r == RxLine(Cur, c, GoodLogin(name))
        quit == FirstSent(r.sent, 1, c, "\tNBQUIT=" \o name \o "\n")
        join == FirstSent(r.sent, 1, c, "\tNBJOIN=" \o name \o "\n")
    IN (Holders(Cur, name) # {} /\ sendsLeft[c] = -1)
         => (0 < quit /\ quit < join)

\* the prior holder is evicted while the new session is not yet authorized: the
\* new session, to which no broadcast goes before it is authorized, is not sent
\* the NBQUIT of the holder it replaces
EvictedBeforeAuthorized ==
  \A c \in Unauthorized, name \in ProbeNames :
    LET r == RxLine(Cur, c, GoodLogin(name))
    IN Holders(Cur, name) # {}
         => ~WasSent(r.sent, c, "\tNBQUIT=" \o name \o "\n")

\* C1 as claimed: after any sequence of connects, logins and disconnects no two
\* registered sessions are authorized under the same exact name, and a login whose
\* name collides with an authorized session evicts that holder before the new
\* session becomes authorized.
C1_Original == UniqueNames /\ LoginEvicts /\ EvictedBeforeAuthorized

\* C1, amended: after any sequence of connects, logins and disconnects no two
\* registered sessions are authorized under the same exact name; a login whose name
\* collides with an authorized session evicts that holder within the login, after
\* the new session has been marked authorized and before NBJOIN is broadcast, so
\* that the new session is sent the NBQUIT of the holder it replaces.
C1_Uniqueness == UniqueNames /\ LoginEvicts /\ EvictedAfterAuthorized

\* a login has just evicted the holder of its name, with a bystander whose name
\* differs only in case still registered
C1_Witness ==
  /\ last.op = "service"
  /\ last.c \in Registered
  /\ cli[last.c].authorized
  /\ \E d \in Conn :
       /\ reason[d] = "duplicate name (replaced by new connection)"
       /\ cli[d].charName = cli[last.c].charName
  /\ \E b \in Registered :
       /\ cli[b].authorized
       /\ cli[b].charName # cli[last.c].charName
       /\ Lower(cli[b].charName) = Lower(cli[last.c].charName)
  /\ WasSent(sent, last.c, "\tNBQUIT=" \o cli[last.c].charName \o "\n")

\* login lines of the form LOGIN:<wrong>=<name>; the configured password being "pw"
WrongPasswordLogins ==
  {"LOGIN:no=Al;", "LOGIN:=Al;", "LOGIN:PW=al;", "LOGIN:pw =Al;", "LOGIN: pw=Al;",
   "LOGIN:pwx=Al;\tNAMES"}

\* st and r differ in nothing but what the disconnect of the unauthorized session c
\* changes: c is closed, unregistered and gone from the registry
OnlyClosed(st, r, c) ==
  /\ r.clients = Remove(st.clients, c)
  /\ r.sel = st.sel \ {c}
  /\ r.sock = [st.sock EXCEPT ![c] = "closed"]
  /\ r.cli = [st.cli EXCEPT ![c].isClosing = TRUE]
  /\ r.sendsLeft = st.sendsLeft
  /\ \A d \in Conn \ {c} : r.reason[d] = st.reason[d]

\* C6: with a configured password, a login line LOGIN:<wrong>=<name>; whose password
\* is not exactly the configured one disconnects the session ("bad password") before
\* any login side effect: the session is not authorized and gets no name, no other
\* session is evicted or changed, and nothing (no NBJOIN, no NBCLIENTLIST) is sent
\* to any session.
C6_PasswordGate ==
  password # None =>
    \A c \in Unauthorized, line \in WrongPasswordLogins :
      LET r == RxLine(Cur, c, line)
      IN /\ r.reason[c] = "bad password"
         /\ ~r.cli[c].authorized
         /\ r.sent = <<>>
         /\ ~r.raised
         /\ OnlyClosed(Cur, r, c)

\* a session has just been refused for its password while another session is
\* authorized under the name it asked for
C6_Witness ==
  /\ password # None
  /\ last.op = "service"
  /\ last.data = "LOGIN:no=Al;\n"
  /\ reason[last.c] = "bad password"
  /\ ~cli[last.c].authorized
  /\ \E d \in Registered : cli[d].authorized /\ cli[d].charName = "Al"
  /\ sent = <<>>

\* a login line with the password part pw ("absent": the form LOGIN=<name>;)
LoginLine(pw, name) ==
  IF pw = None THEN "LOGIN=" \o name \o ";"
  ELSE "LOGIN:" \o pw.val \o "=" \o name \o ";"

\* the outcome of a login is the same for every two passwords of the set pws
PasswordIgnored(pws) ==
  password = None =>
    \A c \in Unauthorized, name \in ProbeNames, pw \in pws :
      LET r == RxLine(Cur, c, LoginLine(pw, name))
      IN /\ r = RxLine(Cur, c, LoginLine(None, name))
         /\ r.cli[c].authorized
         /\ r.cli[c].charName = name

\* C7 as claimed: with no configured password the outcome of a login does not depend
\* on the supplied password, absent or any string: all such logins succeed with the
\* same name, outputs and state.
C7_Original ==
  PasswordIgnored({None, Some(""), Some("pw"), Some("no"), Some("a=b"), Some("a;b")})

\* C7, amended: with no configured password the outcome of a login does not depend
\* on the supplied password, absent or any string that holds neither "=" nor ";"
\* (the login line is cut at its first ";" and the password at the first "="): all
\* such logins succeed with the same name, outputs and state.
C7_PasswordIgnored ==
  PasswordIgnored({None, Some(""), Some("pw"), Some("no"), Some(" x "), Some("LOGIN:")})

\* with no configured password, a session has logged in with a password, over a
\* holder of its name
C7_Witness ==
  /\ password = None
  /\ last.op = "service"
  /\ last.data = "LOGIN:no=Al;\n"
  /\ last.c \in Registered
  /\ cli[last.c].authorized
  /\ cli[last.c].charName = "Al"
  /\ \E d \in Conn : reason[d] = "duplicate name (replaced by new connection)"

\* C10 as claimed: a session moves only forward through UNAUTHORIZED -> AUTHORIZED
\* -> CLOSED.  A session whose login was refused was closed while unauthorized, so
\* it is never authorized afterwards, whatever lines follow.
C10_OneWay ==
  \A c \in Conn :
    reason[c] \in {"empty login name", "bad password"} => ~cli[c].authorized

(***************************************************************************)
(* Chat: sessions log in as Al, Bo and al, switch their echo on, join the   *)
(* channel raid, and send an arm command and the lines after it in one     *)
(* read.                                                                   *)
(***************************************************************************)
\* the name under which the c-th connection logs in
ChatName(c) == IF c = 1 THEN "Al" ELSE IF c = 2 THEN "Bo" ELSE "al"

\* what connection c receives in one read
ChatData(c) ==
  {"LOGIN=" \o ChatName(c) \o ";\n", "\tLOCALECHO 1\n", "\tCHANNELS\nraid\n", "\tTELL\nal yo\n",
   "\tTELL\nraid go\nhi\n", "\tBCI\nzed x\n"}

InitChat == InitWith(None, 120, MaxConn)

ChatService == \E c \in Conn : \E d \in ChatData(c) : Service(c, d)

\* the peer of the second connection stops taking bytes
ChatPeerBreaks == PeerBreak(2, 0)

NextChat == Accept \/ ChatService \/ ChatPeerBreaks

SpecChat == InitChat /\ [][NextChat]_vars

\* the registered sessions that have logged in
Authorized == {c \in Registered : cli[c].authorized}

\* the arm commands, as lines
ArmCommands == {"\tNBMSG", "\tMSGALL", "\tTELL", "\tCHANNELS", "\tBCI"}

\* the type an arm command line arms
ArmedBy(arm) == ArmedType(CommandToken(Strip(SubSeq(arm, 2, Len(arm)))))

\* lines that are neither empty nor tab-prefixed
PlainLines == {"hi", "al yo", " x", "//cmd a", "raid"}

\* the empty line, and command lines that arm nothing
QuietLines == {"", "\tPONG", "\tNAMES", "\tLOCALECHO 1", "\tDISCONNECT", "\tFOO", "\t"}

\* the latch of c is none after c has armed a type and then sent one line of lines
LatchResetBy(lines) ==
  \A c \in Authorized, arm \in ArmCommands, line \in lines :
    LET s1 == RxLine(Cur, c, arm)
    IN /\ s1.cli[c].pendingMsgType = ArmedBy(arm)
       /\ ArmedBy(arm) # msgTypeNone
       /\ RxLine(s1, c, line).cli[c].pendingMsgType = msgTypeNone

\* an empty line and a command line that arms nothing leave the latch as it is, and
\* an arm command sets it to its own type
LatchKeptByCommands ==
  \A c \in Authorized, arm \in ArmCommands :
    LET s1 == RxLine(Cur, c, arm)
    IN /\ \A line \in QuietLines :
            RxLine(s1, c, line).cli[c].pendingMsgType = ArmedBy(arm)
       /\ \A arm2 \in ArmCommands :
            RxLine(s1, c, arm2).cli[c].pendingMsgType = ArmedBy(arm2)

SecondLines == {"hi", "raid go"}

\* what _service makes of the lines that c receives in one read
Served(c, lines) == ServiceLoop([Cur EXCEPT !.cli[c].readBuf = lines], c)

\* c arms a type and sends one line of lines, which consumes the latch; the line
\* after that, when the loop still runs, is broadcast as a MSGALL payload
SecondLineDefault(lines) ==
  \A c \in Authorized, arm \in ArmCommands, l1 \in lines, l2 \in SecondLines :
    LET s1 == Served(c, arm \o "\n" \o l1 \o "\n")
        s2 == Served(c, arm \o "\n" \o l1 \o "\n" \o l2 \o "\n")
    IN /\ s1.cli[c].pendingMsgType = msgTypeNone
       /\ s2 = IF s1.raised THEN [s1 EXCEPT !.cli[c].readBuf = l2 \o "\n"]
               ELSE BroadcastMsgAll(s1, c, l2)

AllTake == \A d \in Registered : sendsLeft[d] = -1

\* the channels that session d has joined
Channels(d) == SeqToSet(SplitWs(cli[d].chanList))

\* line is a message of the sender named n: a MSGALL, a TELL or a BCI line
IsDelivery(line, n) ==
  \/ StartsWith(line, "<" \o n \o "> ")
  \/ StartsWith(line, "[" \o n \o "] ")
  \/ StartsWith(line, "{" \o n \o "} ")

\* the sessions to which the handler whose outcome is r has sent a message of c
Receivers(r, c) ==
  {r.sent[i].to : i \in {j \in 1..Len(r.sent) : IsDelivery(r.sent[j].line, cli[c].charName)}}

\* payloads with the command that arms their type ("": none, the implicit MSGALL)
EchoPayloads ==
  {<<"", "hi">>, <<"\tMSGALL", "hi">>, <<"\tMSGALL", "//cmd a">>,
   <<"\tTELL", "al yo">>, <<"\tTELL", "BO yo">>, <<"\tTELL", "raid go">>,
   <<"\tTELL", "zed x">>, <<"\tBCI", "AL yo">>, <<"\tBCI", "bo yo">>,
   <<"\tBCI", "raid go">>}

\* the outcome of c sending the payload p, armed first
Payload(c, p) == RxLine(RxLine(Cur, c, p[1]), c, p[2])

\* the place of the registered session d in the registry
Place(d) == CHOOSE i \in 1..Len(clients) : clients[i] = d

\* of the registered sessions ds, the one that comes first in the registry
Earliest(ds) == CHOOSE d \in ds : \A e \in ds : Place(d) <= Place(e)

\* C4 as claimed: for every MSGALL, TELL or BCI payload and every registry state, a
\* sender whose localEcho is false is not among the sessions that receive the
\* delivered message, and a sender whose localEcho is true is among them.
C4_Original ==
  AllTake =>
    \A c \in Authorized, p \in EchoPayloads :
      LET to == Receivers(Payload(c, p), c)
      IN to # {} => (c \in to <=> cli[c].localEcho)

\* C4, amended: when no send fails, a MSGALL payload goes to every authorized
\* session but the sender, and to the sender too if and only if its localEcho is
\* true.  A TELL or BCI payload whose target matches, case-insensitively, the name of
\* an authorized session goes to the first such session of the registry alone,
\* whatever localEcho is: to the sender when it is that session, and not to the
\* sender otherwise.  Any other TELL or BCI payload goes to the authorized subscribers of the channel named
\* by the target, the sender among them if and only if it subscribes to the channel
\* and its localEcho is true.
C4_EchoSuppression ==
  AllTake =>
    \A c \in Authorized, p \in EchoPayloads :
      LET to == Receivers(Payload(c, p), c)
          target == PayloadTarget(p[2])
          named == {d \in Authorized : Lower(cli[d].charName) = Lower(target)}
      IN IF p[1] \in {"", "\tMSGALL"}
         THEN /\ to = {d \in Authorized : d # c \/ cli[c].localEcho}
              /\ c \in to <=> cli[c].localEcho
         ELSE IF named # {}
         THEN /\ to = {Earliest(named)}
              /\ c \in to <=> c = Earliest(named)
         ELSE /\ to = {d \in Authorized :
                         target \in Channels(d) /\ (d # c \/ cli[c].localEcho)}
              /\ c \in to <=> (target \in Channels(c) /\ cli[c].localEcho)

\* a session with localEcho on that has joined the channel raid has sent a tell to
\* raid: the tell went to the other subscriber and to the sender
C4_Witness ==
  /\ last.op = "service"
  /\ last.data = "\tTELL\nraid go\nhi\n"
  /\ last.c \in Authorized
  /\ cli[last.c].localEcho
  /\ WasSent(sent, last.c, "[" \o cli[last.c].charName \o "] go\n")
  /\ \E d \in Authorized \ {last.c} :
       WasSent(sent, d, "[" \o cli[last.c].charName \o "] go\n")

\* the sessions that a TELL or BCI of c to target can reach: an authorized session of
\* that name, or an authorized subscriber of that channel (c itself with localEcho)
Eligible(c, target) ==
  {d \in Authorized :
     \/ Lower(cli[d].charName) = Lower(target)
     \/ (target \in Channels(d) /\ (d # c \/ cli[c].localEcho))}

\* TELL and BCI payloads
TargetPayloads == {"zed x", "zed", "raid go", "Raid go", "al yo", "bob yo"}

\* TELL and BCI payloads whose target token is empty
NoTargetPayloads == {" x", " "}

\* a TELL or BCI payload of lines that can reach nobody gets its sender the one line
\* "-- <target>: No such name." and nothing else is sent or changed
NoSuchName(lines) ==
  \A c \in Authorized, arm \in {"\tTELL", "\tBCI"}, line \in lines :
    (sendsLeft[c] = -1 /\ Eligible(c, PayloadTarget(line)) = {})
      => Payload(c, <<arm, line>>) =
           [Cur EXCEPT !.cli[c].pendingMsgType = msgTypeNone,
                       !.sent = <<[to |-> c,
                                   line |-> "-- " \o PayloadTarget(line)
                                               \o ": No such name.\n"]>>]

\* a TELL or BCI payload whose target token is empty is dropped: nothing is sent
Dropped(lines) ==
  \A c \in Authorized, arm \in {"\tTELL", "\tBCI"}, line \in lines :
    Payload(c, <<arm, line>>) = [Cur EXCEPT !.cli[c].pendingMsgType = msgTypeNone]

Timeouts == {0, 45, 90}

\* what connection c receives in one read
KeepData(c) == {"LOGIN=" \o ChatName(c) \o ";\n", "\tPONG\n"}

InitKeep == \E T \in Timeouts : InitWith(None, T, MaxConn)

KeepService == \E c \in Conn : \E d \in KeepData(c) : Service(c, d)

\* the clock advances by the ping interval
Clock == AdvanceTime(pingSeconds)

\* a connection arrives, one of the MaxKeepConn that the keepalive is followed for
KeepAccept == nconn < MaxKeepConn /\ Accept

NextKeep == KeepAccept \/ KeepService \/ Tick \/ Clock \/ ChatPeerBreaks

SpecKeep == InitKeep /\ [][NextKeep]_vars

\* the loop of start() calls _tick in every iteration, and select() returns after a
\* second at the latest: a tick that has something to do is not put off for ever
SpecKeepFair == SpecKeep /\ WF_vars(Tick)

\* the outcome of a tick in the current state
Ticked == TickLoop(Cur, clients)

\* c is authorized and its last PONG (or its login) is T seconds old or older
Due(c, T) == c \in Authorized /\ now - cli[c].lastPongAt >= T

\* under a timeout T > 0, the tick disconnects every session that is due and leaves
\* the registry without it; the reason is the timeout when the peer still takes
\* bytes (to a peer that takes none, a PING or NBQUIT that fails comes first); a
\* session that is not due and whose peer takes bytes stays
TimeoutAtTick ==
  CLIENT_TIMEOUT > 0 =>
    \A c \in Authorized :
      IF Due(c, CLIENT_TIMEOUT)
      THEN /\ ~InSeq(Ticked.clients, c)
           /\ c \notin Ticked.sel
           /\ Ticked.sock[c] = "closed"
           /\ Ticked.reason[c] \in {TimeoutReason, "send failure"}
           /\ sendsLeft[c] = -1 => Ticked.reason[c] = TimeoutReason
      ELSE sendsLeft[c] = -1 => (InSeq(Ticked.clients, c) /\ Ticked.reason[c] = "")

\* a session that is due does not stay so for ever: it leaves the registry, unless
\* its PONG arrives before the next tick
SilentLeaves ==
  \A c \in Conn :
    (CLIENT_TIMEOUT > 0 /\ Due(c, CLIENT_TIMEOUT))
      ~> (c \notin Registered \/ last = Event("service", c, "\tPONG\n"))

\* C8: under a timeout T > 0 (here 45 and 90), an authorized session that has sent
\* no PONG for T seconds is disconnected by the tick, with the reason "timeout > Ts
\* without PONG", at the first tick at which now - lastPongAt >= T, and leaves the
\* registry; as a tick runs in every iteration of the loop, this happens eventually
\* to every session that stays silent.
C8_Timeout == []TimeoutAtTick /\ SilentLeaves

\* a tick has just disconnected a silent session for its timeout and told the
\* session that stays
C8_Witness ==
  /\ CLIENT_TIMEOUT > 0
  /\ last.op = "tick"
  /\ \E c \in Conn, d \in Authorized :
       /\ reason[c] = TimeoutReason
       /\ c \notin Registered
       /\ now - cli[c].lastPongAt >= CLIENT_TIMEOUT
       /\ WasSent(sent, d, "\tNBQUIT=" \o cli[c].charName \o "\n")

\* in advisory mode the tick disconnects no session for its silence (a session leaves
\* in a tick only when a send to it fails), and a session whose peer takes bytes
\* stays registered and authorized: the tick moves its lastPongAt to now once it is
\* pingTimeoutSeconds old, sends it the PING that is due, and changes nothing else
AdvisoryAtTick ==
  CLIENT_TIMEOUT = 0 =>
    \A c \in Authorized :
      /\ Ticked.reason[c] \in {"", "send failure"}
      /\ sendsLeft[c] = -1 =>
           /\ InSeq(Ticked.clients, c)
           /\ c \in Ticked.sel
           /\ Ticked.sock[c] = "open"
           /\ Ticked.reason[c] = ""
           /\ Ticked.cli[c] =
                [cli[c] EXCEPT
                   !.lastPongAt = IF Due(c, pingTimeoutSeconds) THEN now ELSE @,
                   !.lastPingAt = IF now - @ >= pingSeconds THEN now ELSE @]

\* in advisory mode no session has ever been disconnected for a timeout
NoTimeoutLogged ==
  CLIENT_TIMEOUT = 0 => \A c \in Conn : ~StartsWith(reason[c], "timeout")

\* C9: in advisory mode (timeout 0) no tick ever disconnects a session for missing
\* PONGs, however long it stays silent; once now - lastPongAt >= 75 the tick only
\* moves lastPongAt to now and leaves the session registered and authorized.
C9_Advisory == AdvisoryAtTick /\ NoTimeoutLogged

\* in advisory mode a tick has run over a session whose login is at least 75 seconds
\* old: its lastPongAt is now, and it is registered and authorized
C9_Witness ==
  /\ CLIENT_TIMEOUT = 0
  /\ last.op = "tick"
  /\ now >= pingTimeoutSeconds
  /\ \E c \in Authorized :
       /\ cli[c].lastPongAt = now
       /\ cli[c].lastPingAt = now
       /\ WasSent(sent, c, "\tPING\n")

(***************************************************************************)
(* Lines of sessions that have not logged in.                              *)
(***************************************************************************)
\* lines that do not begin with LOGIN
NotLoginLines ==
  {"hi", "", "\tNAMES", "\tPONG", "\tDISCONNECT", "\tTELL", "\tLOCALECHO 1", "login=Al;",
   " LOGIN=Al;", "LOGI", "al yo"}

\* C11: for a session that has not logged in, every received line that is not a
\* LOGIN line (does not begin with LOGIN) is silently ignored: nothing is sent to
\* any session, the session is not disconnected, and its state (name, authorized,
\* latch, localEcho, channels, clocks) and the registry stay as they are.
C11_Ignored ==
  \A c \in Unauthorized, line \in NotLoginLines :
    /\ RxLine(Cur, c, line) = Cur
    /\ Served(c, line \o "\n") = Cur
    /\ Served(c, line \o "\r\n") = Cur

\* a session that has not logged in has been sent LOCALECHO 1, with another session
\* logged in: nothing was sent, and the session is as it was after accept
C11_Witness ==
  /\ last.op = "service"
  /\ last.data = "\tLOCALECHO 1\n"
  /\ last.c \in Unauthorized
  /\ cli[last.c] = NewClient(cli[last.c].lastPingAt)
  /\ sent = <<>>
  /\ Authorized # {}

(***************************************************************************)
(* The disconnect path.                                                    *)
(***************************************************************************)
\* the reasons with which the code calls _disconnect
Causes ==
  {"eof", "reset by peer", "client requested disconnect",
   "duplicate name (replaced by new connection)", "empty login name", "bad password",
   "send failure", "server shutdown", TimeoutReason}

\* the sessions that have been disconnected
Closed == {c \in Conn : cli[c].isClosing}

\* how many lines of trace q go to c and are text
RECURSIVE CountSent(_, _, _)
CountSent(q, c, text) ==
  IF q = <<>> THEN 0
  ELSE (IF Head(q) = [to |-> c, line |-> text] THEN 1 ELSE 0) + CountSent(Tail(q), c, text)

\* a disconnect of a session that has been disconnected changes and sends nothing
SecondDisconnect ==
  /\ \A c \in Closed, why \in Causes : Disconnect(Cur, c, why) = Cur
  /\ \A c \in Registered, w1, w2 \in Causes :
       LET s1 == Disconnect(Cur, c, w1)
       IN /\ s1.cli[c].isClosing
          /\ s1.reason[c] = w1
          /\ Disconnect(s1, c, w2) = s1

\* the disconnect of an authorized session sends its NBQUIT once to a session
OneQuit ==
  \A c \in Authorized, d \in Conn :
    CountSent(Disconnect(Cur, c, "eof").sent, d,
              "\tNBQUIT=" \o cli[c].charName \o "\n") <= 1

\* a session that has been disconnected stays so, out of the registry and of the
\* readiness set, its handle closed
StaysClosed ==
  \A c \in Closed :
    /\ cli'[c].isClosing
    /\ reason'[c] = reason[c]
    /\ c \notin SeqToSet(clients') \cup sel'
    /\ sock'[c] = "closed"

\* C12: disconnect is idempotent: whatever the causes, a second or later disconnect
\* of a session changes nothing and sends nothing, and a session that had been
\* authorized has its NBQUIT broadcast at most once over its lifetime (its one
\* effective disconnect sends it once to a session, and the session stays closed).
C12_Idempotent == [](SecondDisconnect /\ OneQuit) /\ [][StaysClosed]_vars

\* a tick has disconnected the first session for its timeout; the NBQUIT to the
\* second one failed, which disconnected it, and the tick then came to the second
\* one, due as well, and disconnected it once more: its reason is the first
C12_Witness ==
  /\ CLIENT_TIMEOUT > 0
  /\ last.op = "tick"
  /\ reason[1] = TimeoutReason
  /\ reason[2] = "send failure"
  /\ cli[2].authorized
  /\ cli[2].lastPingAt = now
  /\ now - cli[2].lastPongAt >= CLIENT_TIMEOUT
  /\ sent = <<>>

\* the lines of trace q that go to d, in order
SentTo(q, d) == SelectSeq(q, LAMBDA m : m.to = d)

\* the state a disconnect of c leaves when it notifies nobody
Removed(c, why) ==
  [Cur EXCEPT !.cli[c].isClosing = TRUE,
              !.sel = @ \ {c},
              !.sock[c] = "closed",
              !.clients = Remove(@, c),
              !.reason[c] = why]

\* C13: a disconnect unregisters the session from readiness, closes its handle and
\* removes it from the registry before anyone is notified.  Only if it was authorized,
\* every authorized session that remains receives NBQUIT=<name> and, after it, the
\* refreshed NBCLIENTLIST, which does not count the departed session (what a remaining
\* session receives begins with the NBQUIT and ends with the roster of the registry
\* as the disconnect leaves it; these two lines are all it receives when every peer
\* takes its bytes).  The departing session receives neither, and the disconnect of a
\* session that is not authorized sends nothing and changes nothing else.
C13_Departure ==
  \A c \in Registered, why \in Causes :
    LET s1 == Disconnect(Cur, c, why)
        quit == WireLine("\tNBQUIT=" \o cli[c].charName)
        roster == WireLine("\tNBCLIENTLIST=" \o RosterLine(s1))
        remaining == {d \in SeqToSet(s1.clients) : s1.cli[d].authorized}
    IN /\ c \notin SeqToSet(s1.clients) \cup s1.sel
       /\ s1.sock[c] = "closed"
       /\ SentTo(s1.sent, c) = <<>>
       /\ ~cli[c].authorized => s1 = Removed(c, why)
       /\ cli[c].authorized =>
            /\ cli[c].charName \notin SeqToSet(AllNamesSorted(s1))
            /\ \A d \in remaining :
                 LET q == SentTo(s1.sent, d)
                 IN /\ Len(q) >= 2
                    /\ q[1].line = quit
                    /\ q[Len(q)].line = roster
                    /\ AllTake => q = <<[to |-> d, line |-> quit], [to |-> d, line |-> roster]>>

\* the peer of an authorized session has closed; a session that remains has received
\* the NBQUIT and then the roster without the departed name, the departed nothing
C13_Witness ==
  /\ last.op = "closed"
  /\ cli[last.c].authorized
  /\ reason[last.c] = "eof"
  /\ SentTo(sent, last.c) = <<>>
  /\ \E d \in Authorized :
       SentTo(sent, d) =
         <<[to |-> d, line |-> WireLine("\tNBQUIT=" \o cli[last.c].charName)],
           [to |-> d, line |-> WireLine("\tNBCLIENTLIST=" \o cli[d].charName)]>>

(***************************************************************************)
(* Failed sends.                                                           *)
(***************************************************************************)
\* the registered sessions whose next send fails
Failing == {d \in Registered : sendsLeft[d] = 0}

\* the authorized subscribers of channel ch that a message of c reaches
Subscribers(c, ch) ==
  {d \in Authorized : ch \in Channels(d) /\ (d # c \/ cli[c].localEcho)}

\* C14: a failed send on any outbound path disconnects only the session whose send
\* failed and no error propagates: the operation goes on and delivers to the eligible
\* recipients that remain.  For every payload of an authorized session, no exception
\* leaves the handler, the sessions it closes are those whose send fails, and a
\* message to the channel raid reaches every subscriber whose peer takes it.
C14_FailedSend ==
  \A c \in Authorized, p \in EchoPayloads :
    LET r == Payload(c, p)
    IN /\ ~r.raised
       /\ \A d \in Registered : r.cli[d].isClosing => d \in Failing
       /\ p[2] = "raid go" => (Subscribers(c, "raid") \ Failing) \subseteq Receivers(r, c)

(***************************************************************************)
(* Batches: select() returns one or two readable connections at once and   *)
(* the loop services them in turn; every session logs in as Al, so that a  *)
(* login evicts the holder of the name.                                    *)
(***************************************************************************)
BatchData == {"LOGIN=Al;\n", "hi\n", "\tDISCONNECT\n"}

InitBatch == InitWith(None, 120, MaxConn)

BatchOfOne == \E c \in Conn, d \in BatchData : Service(c, d)

BatchOfTwo == \E c1, c2 \in Conn, d1, d2 \in BatchData : Batch(c1, d1, c2, d2)

NextBatch == Accept \/ BatchOfOne \/ BatchOfTwo \/ PeerCloses

SpecBatch == InitBatch /\ [][NextBatch]_vars

\* C15: the event loop stops only because a stop was requested: nothing that happens
\* while it services its ready events, a session disconnected earlier in the same
\* batch and then serviced included, makes it raise or exit.
C15_OnlyStop == running \/ last.op = "shutdown"

(***************************************************************************)
(* Capacity: a server configured for one or two clients; connections       *)
(* arrive, log in, chat and leave.                                         *)
(***************************************************************************)
Capacities == {1, 2}

FullData(c) == {"LOGIN=" \o ChatName(c) \o ";\n", "hi\n"}

InitFull == \E cap \in Capacities : InitWith(None, 120, cap)

FullService == \E c \in Conn : \E d \in FullData(c) : Service(c, d)

NextFull == Accept \/ FullService \/ PeerCloses

SpecFull == InitFull /\ [][NextFull]_vars

\* the connections that were refused: closed without ever being disconnected
Refused == {c \in 1..nconn : sock[c] = "closed" /\ reason[c] = ""}

\* the registry holds at most maxClients sessions, and a refused connection is not
\* in it, nor in the readiness set, and has no session
WithinCapacity ==
  /\ Len(clients) <= maxClients
  /\ \A c \in Refused : c \notin Registered \cup sel /\ cli[c] = NewClient(0)

\* a connection accepted while the registry is at capacity is sent '-- Server full.'
\* and closed, and nothing else changes
RefusedAtCapacity ==
  (nconn' = nconn + 1 /\ Len(clients) >= maxClients) =>
    /\ sent' = <<[to |-> nconn', line |-> "-- Server full.\n"]>>
    /\ sock' = [sock EXCEPT ![nconn'] = "closed"]
    /\ UNCHANGED <<clients, cli, sel, reason, sendsLeft, running>>

\* C16: the registry never holds more sessions than the configured maximum: a
\* connection accepted while it is at capacity is sent '-- Server full.' and closed
\* and is never registered, and the existing sessions are unaffected.
C16_Capacity == []WithinCapacity /\ [][RefusedAtCapacity]_vars

\* a connection has been refused at capacity, with a session logged in
C16_Witness ==
  /\ last.op = "accept"
  /\ last.c \in Refused
  /\ Len(clients) = maxClients
  /\ Authorized # {}
  /\ sent = <<[to |-> last.c, line |-> "-- Server full.\n"]>>

(***************************************************************************)
(* The side effects of a login.                                            *)
(***************************************************************************)
\* the sessions to which trace q carries the line text
Got(q, text) == {d \in Conn : WasSent(q, d, text)}

\* the registered, authorized sessions of st
AuthorizedIn(st) == {d \in SeqToSet(st.clients) : st.cli[d].authorized}

\* C17: NBJOIN=<name> is delivered to exactly the other authorized sessions: the
\* session that logs in does not receive the NBJOIN of its own login.
C17_JoinToOthers ==
  AllTake =>
    \A c \in Unauthorized, n \in ProbeNames :
      LET r == RxLine(Cur, c, GoodLogin(n))
      IN Got(r.sent, WireLine("\tNBJOIN=" \o n)) = AuthorizedIn(r) \ {c}

\* the lines of the places lo..hi of trace q are all text, one to each session of ds
Block(q, lo, hi, ds, text) ==
  /\ hi - lo + 1 = Cardinality(ds)
  /\ lo >= 1
  /\ {q[i].to : i \in lo..hi} = ds
  /\ \A i \in lo..hi : q[i].line = text

\* the trace of the login of c under the name n, every peer taking its bytes: the
\* eviction of the prior holder with its NBQUIT (and the roster of its disconnect,
\* which lists the names listed before the login), then the block of the NBJOIN, then
\* the private roster to c, then the block of the refreshed roster
LoginTrace(c, n) ==
  LET r == RxLine(Cur, c, GoodLogin(n))
      q == r.sent
      k == Len(q)
      all == AuthorizedIn(r)
      m == Cardinality(all)
      held == Holders(Cur, n) # {}
      quit == WireLine("\tNBQUIT=" \o n)
      join == WireLine("\tNBJOIN=" \o n)
      roster == WireLine("\tNBCLIENTLIST=" \o RosterLine(r))
  IN /\ Holders(r, n) = {c}
     /\ \A h \in Holders(Cur, n) : r.cli[h].isClosing /\ h \notin SeqToSet(r.clients)
     /\ InSeq(AllNamesSorted(r), n)
     /\ k = (IF held THEN 2 * m ELSE 0) + 2 * m + 1
     /\ Block(q, k - m + 1, k, all, roster)
     /\ q[k - m] = [to |-> c, line |-> roster]
     /\ Block(q, k - 2 * m, k - m - 1, all, join)
     /\ held => /\ Block(q, 1, m, all, quit)
                /\ Block(q, m + 1, 2 * m, all, roster)
                /\ RosterLine(r) = RosterLine(Cur)

AppendedCommands == {"\tLOCALECHO 1", "\tNAMES", "\tCHANNELS"}

\* C19: a remainder of the login line after the ';' that starts with a tab is
\* dispatched as a command line right after the authorization: the login line with
\* the command appended does what the login line and then the command line do, and
\* with tab + 'LOCALECHO 1' the session is left authorized with localEcho true
\* (every peer taking its bytes).
C19_Remainder ==
  AllTake =>
    \A c \in Unauthorized, n \in ProbeNames, cmd \in AppendedCommands :
      LET r == RxLine(Cur, c, GoodLogin(n) \o cmd)
      IN /\ r = RxLine(RxLine(Cur, c, GoodLogin(n)), c, cmd)
         /\ r.cli[c].authorized
         /\ cmd = "\tLOCALECHO 1" => r.cli[c].localEcho

(***************************************************************************)
(* Packets: sessions log in as Al, Bo and al, switch their echo on and     *)
(* send NBMSG payloads.                                                    *)
(***************************************************************************)
PktData(c) ==
  {"LOGIN=" \o ChatName(c) \o ";\n", "\tLOCALECHO 1\n", "\tNBMSG\nhi\n"}

InitPkt == InitWith(None, 120, MaxConn)

PktService == \E c \in Conn : \E d \in PktData(c) : Service(c, d)

NextPkt == Accept \/ PktService \/ ChatPeerBreaks

SpecPkt == InitPkt /\ [][NextPkt]_vars

\* NBMSG payloads
PktPayloads == {"hi", "al yo", "//cmd a", " x "}

\* the control line that carries the payload p of the sender c
Packet(c, p) == WireLine("\tNBPKT:" \o cli[c].charName \o ":" \o p)

\* C20: an NBMSG payload is delivered as the control line NBPKT:<senderName>:<payload>
\* to every authorized session other than the sender (whose peer takes it), and never
\* to the sender, whatever its localEcho, nor to a session that is not authorized;
\* when every peer takes its bytes these packets are all that is sent.
C20_Packet ==
  \A c \in Authorized, p \in PktPayloads :
    LET r == Payload(c, <<"\tNBMSG", p>>)
        to == Got(r.sent, Packet(c, p))
    IN /\ (Authorized \ {c}) \ Failing \subseteq to
       /\ to \subseteq Authorized \ {c}
       /\ \A d \in Authorized \ {c} : CountSent(r.sent, d, Packet(c, p)) <= 1
       /\ \A u \in Unauthorized : SentTo(r.sent, u) = <<>>
       /\ AllTake =>
            /\ Len(r.sent) = Cardinality(Authorized \ {c})
            /\ r = [Cur EXCEPT !.cli[c].pendingMsgType = msgTypeNone, !.sent = r.sent]

\* a session whose echo is on has sent an NBMSG: the other authorized session has the
\* packet, the sender and the session that has not logged in have nothing
C20_Witness ==
  /\ last.op = "service"
  /\ last.data = "\tNBMSG\nhi\n"
  /\ last.c \in Authorized
  /\ cli[last.c].localEcho
  /\ Unauthorized # {}
  /\ \E d \in Authorized \ {last.c} :
       sent = <<[to |-> d, line |-> "\tNBPKT:" \o cli[last.c].charName \o ":hi\n"]>>

(***************************************************************************)
(* The resolution of the target of a TELL and of a BCI.                    *)
(***************************************************************************)
\* the authorized sessions whose name is target, whatever the case
Named(target) == {d \in Authorized : Lower(cli[d].charName) = Lower(target)}

\* the sessions that got the line text in r, against the resolution of the target of
\* the payload p of c: one of the sessions of that name when there is one, the
\* subscribers of that channel otherwise; a peer that takes no bytes gets nothing
Resolved(r, c, p, text) ==
  LET target == PayloadTarget(p)
      to == Got(r.sent, text)
  IN IF Named(target) # {}
     THEN \E d \in Named(target) : to = {d} \ Failing
     ELSE /\ to \subseteq Subscribers(c, target)
          /\ Subscribers(c, target) \ Failing \subseteq to

\* the line of a TELL of c with the payload p
TellLine(c, p) == WireLine("[" \o cli[c].charName \o "] " \o UnescapeText(PayloadMsg(p)))

\* C21: the target of a TELL payload is matched against the names of the authorized
\* sessions, whatever the case, and on a match '[Sender] <message>' goes to that one
\* session only; only when no name matches is the target a case-sensitive channel
\* token, and the message goes to every authorized session whose channel set holds
\* it, the sender only if its localEcho is on.
C21_TellTarget ==
  \A c \in Authorized, p \in TargetPayloads :
    Resolved(Payload(c, <<"\tTELL", p>>), c, p, TellLine(c, p))

\* the line of a BCI of c with the payload p
BciLine(c, p) == WireLine("{" \o cli[c].charName \o "} " \o UnescapeText(PayloadMsg(p)))

\* the traces qt and qb go to the same sessions in the same order with the same
\* lines, but for the line tl of qt, which is the line bl in qb
SameButWrapper(qt, qb, tl, bl) ==
  /\ Len(qt) = Len(qb)
  /\ \A i \in 1..Len(qt) :
       /\ qt[i].to = qb[i].to
       /\ \/ qt[i].line = tl /\ qb[i].line = bl
          \/ qt[i].line = qb[i].line /\ qt[i].line # tl /\ qb[i].line # bl

\* C22: for every state of the registry, sender and payload, a BCI resolves its
\* target exactly as a TELL does: the two leave the same state and send to the same
\* sessions, the reply '-- <target>: No such name.' included, and differ only in the
\* wrapper of the message, '{Sender} <message>' for '[Sender] <message>'.
C22_BciAsTell ==
  \A c \in Authorized, p \in TargetPayloads \cup NoTargetPayloads :
    LET rt == Payload(c, <<"\tTELL", p>>)
        rb == Payload(c, <<"\tBCI", p>>)
    IN /\ [rt EXCEPT !.sent = <<>>] = [rb EXCEPT !.sent = <<>>]
       /\ SameButWrapper(rt.sent, rb.sent, TellLine(c, p), BciLine(c, p))

\* a session has sent a TELL to al, which reached one session with the wrapper [ ];
\* its BCI to al reaches the same session with the wrapper { }
C22_Witness ==
  /\ last.op = "service"
  /\ last.data = "\tTELL\nal yo\n"
  /\ last.c \in Authorized
  /\ \E d \in Authorized :
       /\ sent = <<[to |-> d, line |-> "[" \o cli[last.c].charName \o "] yo\n"]>>
       /\ Payload(last.c, <<"\tBCI", "al yo">>).sent =
            <<[to |-> d, line |-> "{" \o cli[last.c].charName \o "} yo\n"]>>
       /\ Cardinality(Named("al")) = 2

(***************************************************************************)
(* Channels.                                                               *)
(***************************************************************************)
\* CHANNELS payloads
ChannelPayloads == {"raid", "b", " a  b ", "raid x", " "}

\* C23: a CHANNELS payload replaces the channel set of the sender wholesale with the
\* tokens of the trimmed payload (a token of an earlier payload that is not repeated
\* is no longer subscribed), sends the confirmation '<Sender> joined channels <list>.'
\* to the sender only (whose peer takes it) and nothing to any other session, and
\* leaves the channel set of every other session, and everything else, unchanged.
C23_Channels ==
  \A c \in Authorized, p \in ChannelPayloads :
    LET r == Payload(c, <<"\tCHANNELS", p>>)
    IN /\ SeqToSet(SplitWs(r.cli[c].chanList)) = SeqToSet(SplitWs(p))
       /\ \A d \in Conn \ {c} : r.cli[d] = cli[d]
       /\ c \notin Failing =>
            r = [Cur EXCEPT !.cli[c].chanList = Strip(p),
                            !.cli[c].pendingMsgType = msgTypeNone,
                            !.sent = <<[to |-> c,
                                        line |-> cli[c].charName \o " joined channels "
                                                   \o Strip(p) \o ".\n"]>>]

\* a session has joined the channel raid with two other sessions logged in, one of
\* them on raid already: it alone has the confirmation
C23_Witness ==
  /\ last.op = "service"
  /\ last.data = "\tCHANNELS\nraid\n"
  /\ last.c \in Authorized
  /\ Cardinality(Authorized) = 3
  /\ \E d \in Authorized \ {last.c} : Channels(d) = {"raid"}
  /\ \E d \in Authorized \ {last.c} : Channels(d) = {}
  /\ Channels(last.c) = {"raid"}
  /\ sent = <<[to |-> last.c, line |-> cli[last.c].charName \o " joined channels raid.\n"]>>

(***************************************************************************)
(* MSGALL.                                                                 *)
(***************************************************************************)
\* the authorized sessions with no type pending
Idle == {c \in Authorized : cli[c].pendingMsgType = msgTypeNone}

\* the sessions that a MSGALL of c goes to: every authorized session but c, and c
\* too when its localEcho is on
Audience(c) == {d \in Authorized : d # c \/ cli[c].localEcho}

\* every line of lines, from a session with no type pending, is broadcast as a
\* MSGALL payload: it reaches the whole audience whose peers take it
ImplicitMsgAll(lines) ==
  \A c \in Idle, line \in lines :
    LET r == RxLine(Cur, c, line)
    IN /\ r = BroadcastMsgAll(Cur, c, line)
       /\ \A d \in Audience(c) \ Failing : SentTo(r.sent, d) # <<>>

\* C24 as claimed: every line with no leading tab that an authorized session sends
\* while no type is pending is broadcast as an implicit MSGALL payload, the empty
\* line included.
C24_Original == ImplicitMsgAll(PlainLines \cup {" ", ""})

\* C24, amended: every line with no leading tab, the empty line excepted, that an
\* authorized session sends while no type is pending is broadcast as an implicit
\* MSGALL payload; the empty line is ignored: nothing is sent and nothing changes.
C24_Implicit ==
  /\ ImplicitMsgAll(PlainLines \cup {" "})
  /\ \A c \in Authorized : RxLine(Cur, c, "") = Cur

\* a session has sent "hi" with no type pending (the tell before it consumed the
\* latch): "hi" is the last line each of the two other sessions has received
C24_Witness ==
  /\ last.op = "service"
  /\ last.data = "\tTELL\nraid go\nhi\n"
  /\ last.c \in Idle
  /\ Cardinality(Authorized) = 3
  /\ \A d \in Authorized \ {last.c} :
       /\ SentTo(sent, d) # <<>>
       /\ SentTo(sent, d)[Len(SentTo(sent, d))].line = "<" \o cli[last.c].charName \o "> hi\n"

\* what connection c receives in one read: its login, the echo command, an armed
\* MSGALL payload that starts with // and a line with no type armed
AllData(c) ==
  {"LOGIN=" \o ChatName(c) \o ";\n", "\tLOCALECHO 1\n", "\tMSGALL\n //cmd   a \n",
   " hi  there\n"}

InitAll == InitWith(None, 120, MaxConn)

AllService == \E c \in Conn : \E d \in AllData(c) : Service(c, d)

NextAll == Accept \/ AllService \/ ChatPeerBreaks

SpecAll == InitAll /\ [][NextAll]_vars

\* MSGALL payloads, each with its body: trimmed, its runs of spaces collapsed
AllPayloads ==
  {<<"hi", "hi">>, <<" hi  there", "hi there">>, <<"a   b  c ", "a b c">>,
   <<"//cmd a", "//cmd a">>, <<" //cmd   a ", "//cmd a">>, <<"/ /x", "/ /x">>,
   <<"a\t  b", "a\t b">>, <<"  ", "">>}

\* the line that the session d gets for the body of a MSGALL of c
AllLine(c, d, body) ==
  IF StartsWith(body, "//")
  THEN "<" \o cli[c].charName \o "> " \o cli[d].charName \o " " \o body \o "\n"
  ELSE "<" \o cli[c].charName \o "> " \o body \o "\n"

\* C25: a MSGALL payload is trimmed and its runs of spaces are collapsed to one; if
\* the result starts with '//' each recipient gets its own line, which holds its own
\* name ('<Sender> <RecipientName> <payload>'), otherwise all get the same line
\* '<Sender> <payload>'; in both cases the recipients are all the authorized sessions
\* but the sender, and the sender too when its localEcho is on (each has the line
\* once when its peer takes it; nobody else has a line of that message, and when
\* every peer takes its bytes nothing else is sent or changed).
C25_MsgAll ==
  \A c \in Authorized, p \in AllPayloads :
    LET r == Payload(c, <<"\tMSGALL", p[1]>>)
    IN /\ \A d \in Audience(c) \ Failing : CountSent(r.sent, d, AllLine(c, d, p[2])) = 1
       /\ \A d \in Conn \ Audience(c) :
            \A i \in 1..Len(r.sent) :
              r.sent[i].to = d => ~StartsWith(r.sent[i].line, "<" \o cli[c].charName \o "> ")
       /\ AllTake =>
            /\ Len(r.sent) = Cardinality(Audience(c))
            /\ r = [Cur EXCEPT !.cli[c].pendingMsgType = msgTypeNone, !.sent = r.sent]

\* a session whose echo is on has sent the MSGALL payload ' //cmd   a ' with two
\* other sessions logged in: each of the three has the line with its own name
C25_Witness ==
  /\ last.op = "service"
  /\ last.data = "\tMSGALL\n //cmd   a \n"
  /\ last.c \in Authorized
  /\ cli[last.c].localEcho
  /\ Cardinality(Authorized) = 3
  /\ Len(sent) = 3
  /\ \A d \in Authorized :
       WasSent(sent, d, "<" \o cli[last.c].charName \o "> " \o cli[d].charName \o " //cmd a\n")

(***************************************************************************)
(* Protocol violations: sessions log in, arm a TELL, send an unknown       *)
(* command or a login with no name.                                        *)
(***************************************************************************)
ViolData(c) ==
  {"LOGIN=" \o ChatName(c) \o ";\n", "\tTELL\n", "\tfoo bar\n", "LOGIN=;\n"}

InitViol == InitWith(None, 120, MaxConn)

ViolService == \E c \in Conn : \E d \in ViolData(c) : Service(c, d)

NextViol == Accept \/ ViolService \/ ChatPeerBreaks

SpecViol == InitViol /\ [][NextViol]_vars

\* lines that carry an unknown command, each with the token of the answer
UnknownCommands ==
  {<<"\tfoo bar", "FOO">>, <<"\tFOO", "FOO">>, <<"\t  pongs ", "PONGS">>,
   <<"\tLOGIN=Al;", "LOGIN=AL;">>, <<"\tname s", "NAME">>}

\* login lines from which no name can be extracted
NamelessLogins == {"LOGIN=;", "LOGIN", "LOGIN:pw=;", "LOGIN= ;", "LOGINAl;", "LOGIN:Al;"}

\* an unknown command is answered to its sender alone (whose peer takes the line)
\* and changes nothing: the session stays registered and authorized, with its
\* latch, localEcho and channels
UnknownAnswered ==
  \A c \in Authorized, u \in UnknownCommands :
    LET r == RxLine(Cur, c, u[1])
    IN /\ [r.cli[c] EXCEPT !.isClosing = FALSE] = cli[c]
       /\ \A d \in Conn \ {c} : SentTo(r.sent, d) = <<>> \/ c \in Failing
       /\ c \notin Failing =>
            r = [Cur EXCEPT !.sent = <<[to |-> c,
                                        line |-> "-- Unknown Command: " \o u[2] \o "\n"]>>]

\* an empty command from an authorized session and, from a session that has not
\* logged in, a line that is not a login, change and close nothing
OthersIgnored ==
  /\ \A c \in Authorized : RxLine(Cur, c, "\t") = Cur /\ RxLine(Cur, c, "\t  ") = Cur
  /\ \A c \in Unauthorized, line \in NotLoginLines \cup {u[1] : u \in UnknownCommands} :
       RxLine(Cur, c, line) = Cur

\* a login with no name disconnects the session, which is not authorized
NamelessClosed ==
  \A c \in Unauthorized, line \in NamelessLogins :
    RxLine(Cur, c, line) = Removed(c, "empty login name")

\* C26: the protocol violations other than an empty login name and a bad password
\* never close the connection: an unknown tab-prefixed command is answered with
\* '-- Unknown Command: <TOKEN>' to its sender only and leaves the session registered,
\* authorized and with its latch, localEcho and channels as they are; a login whose
\* extracted name is empty disconnects the session without authorizing it.
C26_Violations == UnknownAnswered /\ OthersIgnored /\ NamelessClosed

\* a session with a TELL armed has sent an unknown command: it has the answer and its
\* latch is still armed; another one was closed for its empty login name
C26_Witness ==
  /\ last.op = "service"
  /\ last.data = "\tfoo bar\n"
  /\ last.c \in Authorized
  /\ cli[last.c].pendingMsgType = msgTypeTell
  /\ sent = <<[to |-> last.c, line |-> "-- Unknown Command: FOO\n"]>>
  /\ \E d \in Conn : reason[d] = "empty login name" /\ ~cli[d].authorized

(***************************************************************************)
(* Shutdown: sessions log in as Al, Bo and al, a peer stops taking bytes,  *)
(* and a signal requests the stop.                                         *)
(***************************************************************************)
StopData(c) == {"LOGIN=" \o ChatName(c) \o ";\n", "hi\n"}

InitStop == InitWith(None, 120, MaxConn)

StopService == \E c \in Conn : \E d \in StopData(c) : Service(c, d)

NextStop == Accept \/ StopService \/ ChatPeerBreaks \/ Stop \/ Shutdown

SpecStop == InitStop /\ [][NextStop]_vars

\* every iteration of the loop of start() ends (select has a timeout of one second
\* and the handlers return), and the loop then tests _shouldStop
SpecStopFair == SpecStop /\ WF_vars(Shutdown)

\* the server is down: the registry and the readiness set are empty and the handle of
\* every connection accepted is closed
Down ==
  /\ clients = <<>>
  /\ sel = {}
  /\ \A c \in 1..nconn : sock[c] = "closed" /\ cli[c].isClosing

\* the loop exits only on a stop requested, and its exit disconnects every session
\* of the registry with the reason 'server shutdown' (one whose peer takes no bytes
\* may have been disconnected for the failed send of an NBQUIT before its turn);
\* the NBQUIT of an authorized session goes to every session after it in the
\* registry whose peer takes it
LoopExit ==
  (running /\ ~running') =>
    /\ shouldStop
    /\ \A c \in Registered :
         /\ reason'[c] \in {"server shutdown", "send failure"}
         /\ c \notin Failing => reason'[c] = "server shutdown"
    /\ \A c, d \in Authorized :
         (Place(c) < Place(d) /\ d \notin Failing)
           => WasSent(sent', d, WireLine("\tNBQUIT=" \o cli[c].charName))

MasterRaw == {None, Some(""), Some("Off"), Some("auto"), Some(" AUTO "), Some(" m ")}

\* the raw values of EQBCS_PY_INSTANCE<n>_PASSWORD
InstanceRaw == {None, Some("none"), Some("Auto"), Some("v"), Some("0")}

\* the values of -s on the command line
CliArgs == {None, Some(""), Some("c")}

InitPw ==
  \E mr \in MasterRaw, i0 \in InstanceRaw, i1 \in InstanceRaw :
    InitEnv(None, 120, 0, [master |-> mr, instance |-> <<i0, i1>>])

\* the process resolves the password of an instance
Resolution == \E n \in Instances, a \in CliArgs : Main(n, a)

NextPw == Resolution

SpecPw == InitPw /\ [][NextPw]_vars

\* the policies of the environment
MasterPolicy == ParsePwPolicy(environ.master)
InstancePolicy(n) == ParsePwPolicy(environ.instance[n + 1])

\* the resolution of instance n in the current state
Resolve(n) == ResolveInstancePassword(environ, AUTO_MASTER_PASSWORD_CACHE, urandom, n)

\* the tokens generated so far
Drawn == {GenBase64_22(k) : k \in 1..urandom}

\* the password is a token generated by this resolution, for the instance alone
InstanceToken(r) ==
  /\ r.pw = Some(GenBase64_22(r.urandom))
  /\ r.pw.val \notin Drawn
  /\ r.pw # r.cache

\* the effective password of instance n under the policies, the literal c of the
\* command line being used when it is supplied, whatever it is
Table(n, a, supplied) ==
  LET r == Resolve(n)
      e == EffectivePassword(r.pw, a)
      i == InstancePolicy(n)
  IN /\ i.mode = "defined" => e = i.value /\ e.some
     /\ i.mode = "auto" => e = r.pw /\ InstanceToken(r)
     /\ i.mode = "none" /\ MasterPolicy.mode = "defined" => e = MasterPolicy.value /\ e.some
     /\ i.mode = "none" /\ MasterPolicy.mode = "auto" => e = r.cache /\ e.some
     /\ i.mode = "none" /\ MasterPolicy.mode = "none" => e = (IF supplied THEN a ELSE None)

\* C28 as stated: for every combination of instance policy, master policy and literal
\* of the command line, the effective password is v when the instance policy is
\* defined(v), a token generated for the instance (not the master token) when it is
\* auto, and when it is none: m for master defined(m), the master token for master
\* auto, and for master none the literal of the command line if supplied, else none.
C28_Original ==
  \A n \in Instances, a \in CliArgs : Table(n, a, a.some)

\* C28: the same table, the literal of the command line being used when it is supplied
\* and not empty: an empty literal gives no password.
C28_Table ==
  \A n \in Instances, a \in CliArgs : Table(n, a, a.some /\ a.val # "")

\* main has given an instance with policy auto its own token, the master token being
\* cached
C28_Witness ==
  /\ last.op = "main"
  /\ InstancePolicy(last.c).mode = "auto"
  /\ AUTO_MASTER_PASSWORD_CACHE.some
  /\ password.some
  /\ password # AUTO_MASTER_PASSWORD_CACHE
  /\ password.val \in Drawn

\* the instances that inherit the master policy auto, and those of policy auto
Inheriting == {n \in Instances : InstancePolicy(n).mode = "none" /\ MasterPolicy.mode = "auto"}
OwnToken == {n \in Instances : InstancePolicy(n).mode = "auto"}

\* the resolution of instance n after a resolution that left r
ResolveAfter(r, n) == ResolveInstancePassword(environ, r.cache, r.urandom, n)

\* a resolution that inherits generates the master token if there is none yet, and
\* returns the cached one otherwise; every resolution after it that inherits returns
\* the same token and leaves the cache as it is
MasterTokenOnce ==
  \A n \in Inheriting :
    LET r == Resolve(n)
    IN /\ r.pw.some /\ r.cache = r.pw
       /\ IF AUTO_MASTER_PASSWORD_CACHE.some
          THEN r.pw = AUTO_MASTER_PASSWORD_CACHE /\ r.urandom = urandom
          ELSE r.pw.val \notin Drawn /\ r.urandom = urandom + 1
       /\ \A n2 \in Inheriting : ResolveAfter(r, n2) = r
       /\ \A n2 \in OwnToken, n3 \in Inheriting :
            ResolveAfter(ResolveAfter(r, n2), n3).pw = r.pw

\* a resolution of policy auto returns a token no resolution returned before, the next
\* one another; it leaves the cache as it is and returns the same with any cache
InstanceTokenFresh ==
  \A n \in OwnToken :
    LET r == Resolve(n)
    IN /\ InstanceToken(r)
       /\ r.cache = AUTO_MASTER_PASSWORD_CACHE
       /\ \A n2 \in OwnToken :
            ResolveAfter(r, n2).pw # r.pw /\ ResolveAfter(r, n2).cache = r.cache
       /\ \A cache \in {None, Some("m"), Some(GenBase64_22(1))} :
            ResolveInstancePassword(environ, cache, urandom, n).pw = r.pw

\* the cache is set once, by a resolution that inherits the master policy auto, and
\* never changes afterwards
CacheSetOnce ==
  AUTO_MASTER_PASSWORD_CACHE' # AUTO_MASTER_PASSWORD_CACHE =>
    /\ ~AUTO_MASTER_PASSWORD_CACHE.some
    /\ last'.op = "main" /\ last'.c \in Inheriting
    /\ urandom' = urandom + 1
    /\ AUTO_MASTER_PASSWORD_CACHE' = Some(GenBase64_22(urandom'))
    /\ password' = AUTO_MASTER_PASSWORD_CACHE'

Ping == "\tPING\n"

\* the PING of c is due: c is authorized and its last PING (or its login) is
\* pingSeconds old or older
PingDue(c) == c \in Authorized /\ now - cli[c].lastPingAt >= pingSeconds

\* the tick sends a PING to every authorized session that is due and stays connected,
\* and sets its lastPingAt to now; to a session that is not due it sends no PING and
\* leaves its lastPingAt
PingAtTick ==
  \A c \in Authorized :
    IF PingDue(c)
    THEN InSeq(Ticked.clients, c) =>
           /\ CountSent(Ticked.sent, c, Ping) = 1
           /\ Ticked.cli[c].lastPingAt = now
    ELSE /\ ~WasSent(Ticked.sent, c, Ping)
         /\ Ticked.cli[c].lastPingAt = cli[c].lastPingAt

\* the tick sends nothing to a session that is not authorized and leaves it as it is:
\* registered, open, unchanged
UnauthorizedAtTick ==
  \A c \in Unauthorized :
    /\ SentTo(Ticked.sent, c) = <<>>
    /\ InSeq(Ticked.clients, c)
    /\ c \in Ticked.sel
    /\ Ticked.sock[c] = "open"
    /\ Ticked.reason[c] = ""
    /\ Ticked.cli[c] = cli[c]

\* a step that sends a PING to c is a tick at which the PING of c is due, and sets
\* lastPingAt to the time of the PING
PingOnlyDue ==
  \A c \in Conn :
    (WasSent(sent', c, Ping) /\ <<sent, last, cli[c].lastPingAt>> # <<sent', last', cli'[c].lastPingAt>>)
      => /\ last'.op = "tick"
         /\ PingDue(c)
         /\ now' = now
         /\ cli'[c].lastPingAt = now

\* lastPingAt of a session changes only with a PING sent to it, and at its login; it
\* never goes back
PingClock ==
  \A c \in Registered :
    c \in Registered' /\ cli'[c].lastPingAt # cli[c].lastPingAt
      => /\ cli'[c].lastPingAt = now
         /\ \/ WasSent(sent', c, Ping) /\ last'.op = "tick"
            \/ ~cli[c].authorized /\ cli'[c].authorized

\* a PING that is due is sent by a later tick, unless the session leaves
PingEventually ==
  \A c \in Conn :
    PingDue(c) ~>
      \/ c \notin Registered
      \/ last.op = "tick" /\ WasSent(sent, c, Ping) /\ cli[c].lastPingAt = now

\* C30: to every authorized session that stays connected the tick sends a PING and
\* resets lastPingAt whenever now - lastPingAt >= 30: two PINGs to a session are
\* never less than 30 seconds apart, and a PING that is due is eventually sent; a
\* session that is not authorized is never sent a PING and never disconnected by the
\* tick.
C30_Keepalive ==
  /\ [](PingAtTick /\ UnauthorizedAtTick)
  /\ [][PingOnlyDue /\ PingClock]_vars
  /\ PingEventually

\* a tick has sent a session its second PING, 30 seconds after the first, while a
\* session that has not logged in got nothing and stays
C30_Witness ==
  /\ last.op = "tick"
  /\ now = 2 * pingSeconds
  /\ Unauthorized # {}
  /\ \E c \in Authorized :
       /\ WasSent(sent, c, Ping)
       /\ cli[c].lastPingAt = now
       /\ cli[c].lastPongAt = 0
  /\ \A u \in Unauthorized : SentTo(sent, u) = <<>> /\ reason[u] = ""

(***************************************************************************)
(* The registry and the handles.                                           *)
(***************************************************************************)
\* the connections whose handle is open and registered for reading and whose closing
\* guard is not set
Live == {c \in Conn : sock[c] = "open" /\ c \in sel /\ ~cli[c].isClosing}

\* C31: between the steps of the event loop, the sessions of the registry are exactly
\* the sessions whose handle is open and registered for reading and whose closing
\* guard is false; each is in the registry once.  No session is in the registry and
\* closed, or closing and still in the registry.
C31_RegistrySync ==
  /\ Registered = Live
  /\ Cardinality(Registered) = Len(clients)
  /\ \A c \in Conn : cli[c].isClosing <=> (sock[c] = "closed" /\ reason[c] # "")
  /\ \A c \in Conn : sock[c] = "closed" => c \notin sel /\ c \notin Registered

\* a session has been evicted by a login and another disconnected for a failed send,
\* while a third stays in the registry
C31_Witness ==
  /\ last.op = "service"
  /\ \E c \in Conn, d \in Conn :
       /\ reason[c] = "duplicate name (replaced by new connection)"
       /\ reason[d] = "send failure"
       /\ cli[c].isClosing /\ cli[d].isClosing
  /\ Registered # {}

(***************************************************************************)
(* Reads: one byte stream, received in one read or in two.                 *)
(***************************************************************************)
\* the lines that the line loop of _service hands to _rx_line
RECURSIVE Dispatched(_, _)
Dispatched(st, c) ==
  LET buf == st.cli[c].readBuf
      nl == Find(buf, "\n")
      line == RStripCR(SubSeq(buf, 1, nl - 1))
  IN IF st.raised \/ nl = 0 THEN <<>>
     ELSE <<line>> \o
          Dispatched(RxLine([st EXCEPT !.cli[c].readBuf = SubSeq(buf, nl + 1, Len(buf))],
                            c, line), c)

\* the state after the reads of c that receive chunks, and the lines dispatched in
\* them: a connection that has been closed, or a loop that has been left, reads no more
RECURSIVE Reads(_, _, _, _)
Reads(st, c, chunks, lines) ==
  IF chunks = <<>> \/ st.raised \/ c \notin st.sel THEN [st |-> st, lines |-> lines]
  ELSE LET r == [st EXCEPT !.cli[c].readBuf = @ \o Head(chunks)]
       IN Reads(ServiceLoop(r, c), c, Tail(chunks), lines \o Dispatched(r, c))

\* byte streams: two logins of which the first is refused, lines that end in CR LF, an
\* arm command with its payload, an unterminated tail
Streams ==
  {"LOGIN=;\nLOGIN=Al;\n", "hi\r\nyo\n", "\tTELL\nBo x\n", "a\n\nb"}

\* the ways of splitting a stream into two reads
Splits(s) == {<<SubSeq(s, 1, k), SubSeq(s, k + 1, Len(s))>> : k \in 1..(Len(s) - 1)}

\* C32: line extraction does not depend on the chunks: whether a stream is received
\* in one read or in two, the same lines are dispatched, in the same order, and the
\* same state is left, the unterminated tail in the buffer included.
C32_ChunkFree ==
  AllTake =>
    \A c \in Registered, s \in Streams :
      \A chunks \in Splits(s) :
        Reads(Cur, c, chunks, <<>>) = Reads(Cur, c, <<s>>, <<>>)

\* lines that disconnect the session that sends them (a login without a name, before
\* the login; DISCONNECT, after it), and lines that follow them in the same read
ClosingLines == {"LOGIN=;\n", "\tDISCONNECT\n"}
FollowingLines == {"LOGIN=Al;\n", "hi\n", "\tNAMES\n", "\tTELL\nBo x\n"}

\* C33: once a session has been disconnected, the lines still in its inbound buffer
\* (received in the same read as the line that caused the disconnect) have no effect:
\* nothing is sent to any session, and the registry, the handles, the logged reasons
\* and every other session are left as the disconnect left them; the session is not
\* authorized by them.
C33_NoGhost ==
  AllTake =>
    \A c \in Registered, f \in ClosingLines, g \in FollowingLines :
      LET a == Served(c, f)
          b == Served(c, f \o g)
      IN c \notin a.sel =>
           /\ b.sent = a.sent
           /\ b.clients = a.clients
           /\ b.sel = a.sel
           /\ b.sock = a.sock
           /\ b.reason = a.reason
           /\ b.raised = a.raised
           /\ \A d \in Conn \ {c} : b.cli[d] = a.cli[d]
           /\ b.cli[c].authorized = a.cli[c].authorized

(***************************************************************************)
(* Rosters: sessions log in as Al, Bo and al and leave, while the peer of  *)
(* the second stops taking bytes, at once or after one more line.          *)
(***************************************************************************)
\* what connection c receives in one read
RosterData(c) == {"LOGIN=" \o ChatName(c) \o ";\n", "\tDISCONNECT\n"}

InitRoster == InitWith(None, 120, MaxConn)

RosterService == \E c \in Conn : \E d \in RosterData(c) : Service(c, d)

\* the peer of the second connection stops taking bytes, now or after the next line
RosterPeerBreaks == \E k \in {0, 1} : PeerBreak(2, k)

NextRoster == Accept \/ RosterService \/ PeerCloses \/ RosterPeerBreaks

SpecRoster == InitRoster /\ [][NextRoster]_vars

\* the NBCLIENTLIST lines among the lines q, delivered to e
RostersTo(q, e) ==
  SelectSeq(q, LAMBDA m : m.to = e /\ StartsWith(m.line, "\tNBCLIENTLIST="))

\* the roster of the registry, as a line on the wire
RosterNow == WireLine("\tNBCLIENTLIST=" \o RosterLine(Cur))

\* the last NBCLIENTLIST that a step delivered to a session that is still registered
\* and authorized lists the authorized sessions of the registry
RosterCurrent ==
  \A e \in Authorized :
    LET rs == RostersTo(sent, e)
    IN rs # <<>> => rs[Len(rs)].line = RosterNow

\* a step that changes the names of the authorized sessions of the registry delivers
\* an NBCLIENTLIST to every session that is registered and authorized after it
RosterPushed ==
  RosterNow' # RosterNow => \A e \in Authorized' : RostersTo(sent', e) # <<>>

\* C34: whenever the processing of a login or of a disconnect has finished, nested
\* disconnects from failed sends included, the most recent NBCLIENTLIST delivered to
\* each session that is still registered and authorized lists exactly the names of the
\* authorized sessions then in the registry.
C34_RosterSync == []RosterCurrent /\ [][RosterPushed]_vars

(***************************************************************************)
(* Everything: sessions log in or stay unauthorized, send chat, packets,   *)
(* tells and BCI lines, close, stop taking bytes; the clock advances and   *)
(* the tick runs.                                                          *)
(***************************************************************************)
\* what connection c receives in one read
AnyData(c) ==
  {"LOGIN=" \o ChatName(c) \o ";\n", "yo\n", "\tNBMSG\nhi\n", "\tTELL\nbo x\n",
   "\tBCI\nzed x\n", "\tCHANNELS\nraid\n", "\tBCI\nraid go\n"}

InitAny == InitWith(None, 120, MaxConn)

AnyService == \E c \in Conn : \E d \in AnyData(c) : Service(c, d)

\* the clock advances by the ping interval, once
AnyClock == now < pingSeconds /\ Clock

NextAny == Accept \/ AnyService \/ PeerCloses \/ ChatPeerBreaks \/ Tick \/ AnyClock

SpecAny == InitAny /\ [][NextAny]_vars

\* the connections that the lines of the last step went to
Recipients == {sent[i].to : i \in 1..Len(sent)}

\* C35: a registered session that is not authorized is never sent any line: every
\* broadcast (NBJOIN, NBQUIT, NBCLIENTLIST, MSGALL, NBPKT), every TELL and BCI delivery,
\* every private reply and every PING goes only to sessions whose authorized flag is
\* true.  (The one line that goes to a connection without the flag is the refusal of
\* a connection that is not registered.)
C35_OnlyAuthorized ==
  \A c \in Recipients :
    \/ cli[c].authorized
    \/ c \notin Registered /\ last = Event("accept", c, "") /\ sock[c] = "closed"

\* a packet of Al has gone to the other authorized session and not to the registered
\* session that has not logged in
C35_Witness ==
  /\ last.op = "service"
  /\ last.data = "\tNBMSG\nhi\n"
  /\ Unauthorized # {}
  /\ Recipients # {}
  /\ Recipients = Authorized \ {last.c}
  /\ \A d \in Recipients : WasSent(sent, d, "\tNBPKT:Al:hi\n")

\* the reason logged for an eviction
Evicted == "duplicate name (replaced by new connection)"

\* C36: a login evicts only the authorized sessions whose name is exactly the new
\* name: these leave the registry, for the duplicate name; an authorized session whose
\* name differs from it, be it only in letter case, and a session that has not logged
\* in are never evicted, and stay registered and connected with their state unchanged
\* (a session leaves in a login otherwise only when a send to it fails).
C36_EvictsExact ==
  \A c \in Unauthorized, n \in ProbeNames :
    LET r == RxLine(Cur, c, GoodLogin(n))
    IN \A d \in Registered \ {c} :
         IF cli[d].authorized /\ cli[d].charName = n
         THEN /\ ~InSeq(r.clients, d)
              /\ r.sock[d] = "closed"
              /\ r.reason[d] = Evicted
         ELSE /\ r.reason[d] \in {"", "send failure"}
              /\ sendsLeft[d] = -1 =>
                   /\ InSeq(r.clients, d)
                   /\ d \in r.sel
                   /\ r.sock[d] = "open"
                   /\ r.reason[d] = ""
                   /\ r.cli[d] = cli[d]

\* al has logged in over a holder of the name al, and the session Al stays
C36_Witness ==
  /\ last.op = "service"
  /\ last.data = "LOGIN:pw=al;\n"
  /\ last.c \in Authorized
  /\ \E d \in Authorized \ {last.c} : cli[d].charName = "Al" /\ reason[d] = ""
  /\ \E e \in Conn : cli[e].charName = "al" /\ reason[e] = Evicted /\ e \notin Registered

(***************************************************************************)
(* Blank lines: two sessions log in, switch their echo on, join a channel, *)
(* arm a TELL, and send empty lines, while the clock advances.             *)
(***************************************************************************)
\* what connection c receives in one read
BlankData(c) ==
  {"LOGIN=" \o ChatName(c) \o ";\n", "\tLOCALECHO 1\n", "\tCHANNELS\nraid\n", "\tTELL\n",
   "\r\n", "\n\n"}

InitBlank == InitWith(None, 120, MaxConn)

BlankService == \E c \in Conn : \E d \in BlankData(c) : Service(c, d)

NextBlank == KeepAccept \/ BlankService \/ AnyClock

SpecBlank == InitBlank /\ [][NextBlank]_vars

\* reads that hold empty lines only
BlankReads == {"\n", "\r\n", "\n\n", "\r\r\n\r\n"}

\* C37: an empty line received from an authorized session has no effect at all:
\* nothing is sent to any session, and the pending type, the echo, the channels and
\* the keepalive clocks of the session, like everything else, are left as they are.
C37_BlankLine ==
  \A c \in Authorized :
    /\ RxLine(Cur, c, "") = Cur
    /\ \A b \in BlankReads : Served(c, b) = Cur

\* a session with its echo on, in the channel raid, with a TELL armed and its last
\* PONG 30 seconds old has sent an empty line: nothing is sent, nothing has changed
C37_Witness ==
  /\ last.op = "service"
  /\ last.data = "\r\n"
  /\ last.c \in Authorized
  /\ sent = <<>>
  /\ cli[last.c].pendingMsgType = msgTypeTell
  /\ cli[last.c].localEcho
  /\ cli[last.c].chanList = "raid"
  /\ cli[last.c].lastPongAt = 0 /\ cli[last.c].lastPingAt = 0
  /\ now = pingSeconds

(***************************************************************************)
(* Short timeouts: two sessions log in and answer PONG or stay silent,     *)
(* under a timeout shorter than or equal to the ping interval, the clock   *)
(* advancing by ten seconds.                                               *)
(***************************************************************************)
\* the configured timeouts (EQBCS_PY_CLIENT_TIMEOUT)
ShortTimeouts == {10, 30}

\* the time up to which the short timeouts are followed
MaxShortTime == 40

InitShort == \E T \in ShortTimeouts : InitWith(None, T, MaxConn)

\* the clock advances by ten seconds
ShortClock == now < MaxShortTime /\ AdvanceTime(10)

NextShort == KeepAccept \/ KeepService \/ Tick \/ ShortClock

SpecShort == InitShort /\ [][NextShort]_vars

\* a step that disconnects c for its timeout sends c a PING first, unless c has been
\* sent one after its login and its last PONG
PingedFirst ==
  \A c \in Conn :
    (reason[c] = "" /\ reason'[c] = TimeoutReason)
      => \/ WasSent(sent', c, "\tPING\n")
         \/ cli[c].lastPingAt > cli[c].lastPongAt

\* C38: for every timeout T > 0, an authorized session is never disconnected for the
\* keepalive timeout unless the server has sent it at least one PING since its login
\* or its last PONG.
C38_PingedFirst == [][PingedFirst]_vars

(***************************************************************************)
(* The supervisor of one port, under a maximum backoff of half a second or *)
(* of four seconds: launches fail, succeed, and the instance dies.         *)
(***************************************************************************)
\* EQBCS_SUP_MAX_BACKOFF: 0.5 and 4 seconds
MaxBackoffs == {SupUnit \div 2, 4 * SupUnit}

InitSup ==
  \E max \in MaxBackoffs :
    /\ InitServer(None, 120, MaxConn, [master |-> None, instance |-> <<None, None>>])
    /\ InitSupervisor(max)

\* a pass of start_if_needed
StartIfNeeded ==
  \/ StartSkipped
  \/ LaunchRaises
  \/ \E outcome \in {"error", "up", "down"}, took \in {0, SupUnit, InitialWaitSec} :
       Launch(outcome, took)

NextSup == ScheduleBackoffOnDown \/ StartIfNeeded \/ Sleep \/ PortChanges

SpecSup == InitSup /\ [][NextSup]_vars

\* the step is a launch
Launched == pc \in {"initial", "start"} /\ pc' = AfterStart /\ last'.op = "launch"

\* the supervisor launches only when the port is not listening and the backoff since
\* the previous attempt is over
LaunchAllowed == Launched => ~listening /\ clock >= last_try + backoff

\* a pass that finds the port down sets the backoff to one second if it was 0 and
\* doubles it otherwise, up to the maximum
BackoffOnDown ==
  (pc = "schedule" /\ pc' = "start" /\ ~listening)
    => backoff' = IF backoff = 0 THEN SupUnit ELSE Min(2 * backoff, MaxBackoffSec)

\* C39: the supervisor never launches an instance for a port that is accepting
\* connections, and never earlier than backoff[port] seconds after its previous
\* attempt; on each pass that finds the port down the backoff becomes 1 second if it
\* was 0 and otherwise doubles; it never exceeds the configured maximum backoff.
C39_Backoff ==
  /\ [](backoff <= MaxBackoffSec)
  /\ [][LaunchAllowed /\ BackoffOnDown]_vars

====
